---- MODULE Spec2Model ----
(***************************************************************************)
(* Photo Auto Tagger: catalog tag writes, schema detection and preview     *)
(* resolution (lightroom_manager.py), XMP sidecar writes (xmp_manager.py)  *)
(* and the resumable batch worker (photo_tagger_gui.py).                   *)
(*                                                                         *)
(* The specifications of the module:                                       *)
(*   SpecCat      sequences of LightroomManager.add_tags calls             *)
(*   SpecXmp      sequences of XMPManager.write_tags calls on one sidecar  *)
(*   SpecFolder   write_tags calls for the photos of one folder            *)
(*   SpecPreview  one LightroomManager.get_smart_preview call              *)
(*   SpecManager  connect / close calls on one LightroomManager            *)
(*   SpecPhoto    one PhotoTaggerGUI._process_single_photo call            *)
(*   SpecBatch    the GUI thread and the worker thread of a batch run      *)
(*   SpecResume   a batch paused and resumed while the source changes      *)
(*   SpecRunFair  runs begun by START, the worker thread being fair        *)
(*   SpecMount    a catalog run whose originals are on mounted volumes     *)
(*   SpecRestore  RESUME with a state file that may lack keys              *)
(*   SpecSuffix   the suffix step of _generate_tags_for_image              *)
(*   SpecTxn      the transaction of add_tags between two tag generations  *)
(*   SpecEndToEnd a whole run on a catalog of three photos                 *)
(***************************************************************************)
EXTENDS Integers, Sequences, FiniteSets, Bags, TLC

VARIABLES
    \* --- catalog (SQLite tables of the .lrcat file) ---
    keywords,       \* AgLibraryKeyword: set of rows [id_local, name, lc_name]
    edges,          \* AgLibraryKeywordImage: bag of rows <<image, tag>>
    lastAdd,        \* history: the last add_tags call and the tables before it
    \* --- sidecar (one .xmp file) ---
    xmpFile,        \* the file: absent or a parsed document
    lastWrite,      \* history: the last two write_tags calls
    \* --- batch coordinator (PhotoTaggerGUI) ---
    source,         \* the photos the source enumerates now
    stateFile,      \* photo_tagger_state.json: absent or the saved record
    gui,            \* the fields of PhotoTaggerGUI shared by both threads
    worker,         \* the worker thread: pc, its local photos list, loop index
    hist,           \* history of the run
    \* --- the sidecars of a folder of photos (XMPManager.get_xmp_path) ---
    sidecars,       \* the .xmp files of the folder, by path
    sidecarCall,    \* history: the last write_tags call and the files before it
    \* --- preview resolution (LightroomManager.get_smart_preview) ---
    previewCall,    \* one call: what the catalog holds and what is returned
    \* --- schema detection (LightroomManager.connect / close) ---
    manager,        \* the fields of one LightroomManager and the last connect
    \* --- one photo of a batch (PhotoTaggerGUI._process_single_photo) ---
    photoCall,      \* one call: the photo's faults, the writes and the counters
    \* --- originals on mounted volumes (disk_accessible_cache) ---
    mountRun,       \* a catalog run with the memoised mount check and without
    \* --- a whole run on a three-photo catalog ---
    endToEnd,       \* catalog, sidecars, counters and the loop index
    \* --- the catalog transaction of one photo (add_tags) ---
    txn,            \* worker position, open transaction, inference in flight
    \* --- tag suffix (TagSuffixManager.add_suffix) ---
    suffixCall      \* one call: the tag, the result, the result applied again

catVars   == <<keywords, edges, lastAdd>>
xmpVars   == <<xmpFile, lastWrite>>
batchVars == <<source, stateFile, gui, worker, hist>>
lateVars  == <<mountRun, endToEnd, txn, suffixCall>>
auxVars   == <<sidecars, sidecarCall, previewCall, manager, photoCall,
               mountRun, endToEnd, txn, suffixCall>>
vars      == <<keywords, edges, lastAdd, xmpFile, lastWrite,
               source, stateFile, gui, worker, hist,
               sidecars, sidecarCall, previewCall, manager, photoCall,
               mountRun, endToEnd, txn, suffixCall>>

(***************************************************************************)
(* Strings are sequences of one-character strings, so that str.lower()     *)
(* and str.strip() are computed and not assumed.                           *)
(***************************************************************************)
LowerChar(c) ==
    CASE c = "P" -> "p"
      [] c = "A" -> "a"
      [] c = "Q" -> "q"
      [] c = "T" -> "t"
      [] c = "M" -> "m"
      [] OTHER   -> c

Lower(s) == [i \in DOMAIN s |-> LowerChar(s[i])]

RECURSIVE SeqToSet(_)
SeqToSet(s) == IF s = <<>> THEN {} ELSE {Head(s)} \cup SeqToSet(Tail(s))

\* Sequences over S of length 0..n
SeqsUpTo(S, n) == UNION {[1..k -> S] : k \in 0..n}


(***************************************************************************)
(*                  CATALOG: LightroomManager.add_tags                     *)
(***************************************************************************)
MaxTags == 2        \* longest tag list passed to one call

\* Adobe_images.id_local of the photos: two, so that a keyword can be shared
PhotoIds == {1, 2}

\* Two tag names that differ only in case.
CatTags == {<<"P", "a">>, <<"p", "a">>}

TagLists == SeqsUpTo(CatTags, MaxTags)

\* Python None as a keyword id (ids are (max_id or 0) + 1, so never 0)
NoId == 0

KeywordRow(id, tag) == [id_local |-> id, name |-> tag, lc_name |-> Lower(tag)]

\* The place where sqlite3.Error is raised during one call, if any:
\*   existing  the SELECT of get_existing_tags
\*   begin     BEGIN TRANSACTION
\*   keyword   a statement of _get_or_create_keyword for tag number idx
\*             (SELECT, SELECT MAX or INSERT: each ends in "return None"
\*             with no row inserted)
\*   edge      the SELECT or the INSERT on AgLibraryKeywordImage for
\*             tag number idx (each leaves add_tags through its except)
\*   commit    COMMIT
NoFault == [at |-> "none", idx |-> 0]
Faults ==
    {NoFault}
    \cup {[at |-> p, idx |-> 0] : p \in {"existing", "begin", "commit"}}
    \cup {[at |-> p, idx |-> i] : p \in {"keyword", "edge"}, i \in 1..MaxTags}

FaultAt(fault, point, i) == fault.at = point /\ fault.idx = i

\* get_existing_tags: names of the keywords linked to the photo; a
\* sqlite3.Error is logged and [] returned.
ExistingTags(kw, ed, photo, fails) ==
    IF fails THEN {}
    ELSE {r.name : r \in {k \in kw : BagIn(<<photo, k.id_local>>, ed)}}

\* existing_tags_lower = [t.lower() for t in existing_tags]
ExistingTagsLower(existing) == {Lower(t) : t \in existing}

\* (mutation) the membership test without tag.lower()
AlreadyLinkedExact(tag, existingLower) == tag \in existingLower

\* tag.lower() in existing_tags_lower
AlreadyLinkedNoCase(tag, existingLower) == Lower(tag) \in existingLower

\* SELECT id_local FROM AgLibraryKeyword WHERE name = ?  (binary comparison)
KeywordsNamed(kw, tag) == {r \in kw : r.name = tag}

\* SELECT MAX(id_local) FROM AgLibraryKeyword; new_id = (max_id or 0) + 1
NextKeywordId(kw) ==
    IF kw = {} THEN 1
    ELSE (CHOOSE m \in {r.id_local : r \in kw} :
              \A r \in kw : r.id_local <= m) + 1

\* _get_or_create_keyword: the id (NoId on a swallowed sqlite3.Error), the
\* keyword table afterwards, and whether an error was raised.
GetOrCreateKeyword(kw, tag, fault, i) ==
    IF FaultAt(fault, "keyword", i)
    THEN [id |-> NoId, kw |-> kw, err |-> TRUE]
    ELSE IF KeywordsNamed(kw, tag) # {}
    THEN [id |-> (CHOOSE r \in KeywordsNamed(kw, tag) : TRUE).id_local,
          kw |-> kw, err |-> FALSE]
    ELSE [id |-> NextKeywordId(kw),
          kw |-> kw \cup {KeywordRow(NextKeywordId(kw), tag)},
          err |-> FALSE]

\* (mutation) the association is inserted without looking for it first
EdgeExistsNever(ed, photo, kid) == FALSE

\* SELECT 1 FROM AgLibraryKeywordImage WHERE image = ? AND tag = ?
EdgeExists(ed, photo, kid) == BagIn(<<photo, kid>>, ed)

\* (mutation) the two values of the INSERT in the wrong order
InsertEdgeSwapped(ed, photo, kid) == ed (+) SetToBag({<<kid, photo>>})

\* INSERT INTO AgLibraryKeywordImage (image, tag) VALUES (?, ?)
InsertEdge(ed, photo, kid) == ed (+) SetToBag({<<photo, kid>>})

\* The loop "for tag in tags" of add_tags, from tag number i on, inside the
\* transaction.  raised: a sqlite3.Error left the loop; err: some
\* sqlite3.Error was raised (left the loop or was swallowed).
RECURSIVE AddTagsLoop(_, _, _, _, _, _, _, _)
AddTagsLoop(kw, ed, photo, tags, existingLower, i, fault, err) ==
    IF i > Len(tags)
    THEN [raised |-> FALSE, kw |-> kw, ed |-> ed, err |-> err]
    ELSE IF AlreadyLinkedNoCase(tags[i], existingLower)
    THEN AddTagsLoop(kw, ed, photo, tags, existingLower, i + 1, fault, err)
    ELSE LET g == GetOrCreateKeyword(kw, tags[i], fault, i) IN
         IF g.id = NoId
         THEN AddTagsLoop(g.kw, ed, photo, tags, existingLower, i + 1, fault,
                          err \/ g.err)
         ELSE IF FaultAt(fault, "edge", i)
         THEN [raised |-> TRUE, kw |-> g.kw, ed |-> ed, err |-> TRUE]
         ELSE IF EdgeExists(ed, photo, g.id)
         THEN AddTagsLoop(g.kw, ed, photo, tags, existingLower, i + 1, fault, err)
         ELSE AddTagsLoop(g.kw, InsertEdge(ed, photo, g.id), photo, tags,
                          existingLower, i + 1, fault, err)

\* add_tags on an open connection: the return value, the committed tables
\* and whether any sqlite3.Error was raised while it ran.
AddTags(kw, ed, photo, tags, fault) ==
    IF tags = <<>>
    THEN [ok |-> TRUE, kw |-> kw, ed |-> ed, err |-> FALSE]
    ELSE LET exFails  == fault.at = "existing"
             existing == ExistingTags(kw, ed, photo, exFails)
             lowered  == ExistingTagsLower(existing)
         IN  IF fault.at = "begin"
             THEN [ok |-> FALSE, kw |-> kw, ed |-> ed, err |-> TRUE]
             ELSE LET r == AddTagsLoop(kw, ed, photo, tags, lowered, 1, fault,
                                       exFails)
                  IN  IF r.raised \/ fault.at = "commit"
                      THEN \* ROLLBACK
                           [ok |-> FALSE, kw |-> kw, ed |-> ed, err |-> TRUE]
                      ELSE \* COMMIT
                           [ok |-> TRUE, kw |-> r.kw, ed |-> r.ed, err |-> r.err]

\* Names linked to a photo, and the same ignoring case
LinkedNames(kw, ed, photo) == ExistingTags(kw, ed, photo, FALSE)
LinkedLower(kw, ed, photo) == {Lower(t) : t \in LinkedNames(kw, ed, photo)}
RowsNamedNoCase(kw, tag)   == {r \in kw : Lower(r.name) = Lower(tag)}
EdgesOf(ed, photo)         == {e \in BagToSet(ed) : e[1] = photo}

NoCall ==
    [op |-> "none", photo |-> 0, tags |-> <<>>, ok |-> TRUE, err |-> FALSE,
     kwBefore |-> {}, edBefore |-> EmptyBag,
     repeat |-> FALSE, prevAdded |-> FALSE, caseVariant |-> FALSE,
     clean |-> TRUE]

\* One call add_tags(photo, tags) by the worker.
AddTagsCall(photo, tags, fault) ==
    \E r \in {AddTags(keywords, edges, photo, tags, fault)} :
    LET samePhoto == lastAdd.op = "add" /\ lastAdd.photo = photo
                     /\ lastAdd.ok /\ ~lastAdd.err
    IN  /\ keywords' = r.kw
        /\ edges' = r.ed
        /\ lastAdd' =
             [op |-> "add", photo |-> photo, tags |-> tags,
              ok |-> r.ok, err |-> r.err,
              kwBefore |-> keywords, edBefore |-> edges,
              repeat |-> samePhoto /\ lastAdd.tags = tags,
              prevAdded |-> samePhoto /\ lastAdd.tags = tags
                            /\ (lastAdd.kwBefore # keywords
                                \/ lastAdd.edBefore # edges),
              caseVariant |->
                 /\ samePhoto
                 /\ Len(tags) = 1 /\ Len(lastAdd.tags) = 1
                 /\ tags # lastAdd.tags
                 /\ Lower(tags[1]) = Lower(lastAdd.tags[1])
                 /\ EdgesOf(lastAdd.edBefore, photo) = {}
                 /\ RowsNamedNoCase(lastAdd.kwBefore, tags[1]) = {},
              clean |-> lastAdd.clean /\ ~r.err]
        /\ UNCHANGED <<xmpVars, batchVars, auxVars>>

\* Catalogs as Lightroom leaves them: ids 1..n, names pairwise different
\* ignoring case, no duplicate edge.
InitKeywordTables ==
    {{KeywordRow(i, ns[i]) : i \in DOMAIN ns} :
        ns \in {s \in SeqsUpTo(CatTags, 1) :
                  \A i, j \in DOMAIN s : i # j => Lower(s[i]) # Lower(s[j])}}

InitCat ==
    /\ keywords \in InitKeywordTables
    /\ \E es \in SUBSET (PhotoIds \X {r.id_local : r \in keywords}) :
           edges = SetToBag(es)
    /\ lastAdd = NoCall


(***************************************************************************)
(*                   SIDECAR: XMPManager.write_tags                        *)
(***************************************************************************)
MaxWrites == 2      \* write_tags calls in one history

IsSpace(c) == c = " "

\* str.strip()
RECURSIVE StripLeft(_)
StripLeft(s) ==
    IF s # <<>> /\ IsSpace(Head(s)) THEN StripLeft(Tail(s)) ELSE s

RECURSIVE StripRight(_)
StripRight(s) ==
    IF s # <<>> /\ IsSpace(s[Len(s)])
    THEN StripRight(SubSeq(s, 1, Len(s) - 1))
    ELSE s

Strip(s) == StripRight(StripLeft(s))

\* Tags offered to write_tags: three plain names, one with a leading blank,
\* and the empty string.
XmpTags == {<<"A">>, <<"B">>, <<"C">>, <<" ", "A">>, <<>>}
XmpTagLists == SeqsUpTo(XmpTags, 2)

\* The sidecar file.  A parsed document is the sequence of its
\* rdf:Description elements, each the sequence of its children: a dc:subject
\* (the sequence of its rdf:Bag children, each the sequence of its rdf:li
\* texts) or some other element.
AbsentFile  == [kind |-> "absent"]
CorruptFile == [kind |-> "corrupt"]      \* exists, not parseable as XML
Document(descs) == [kind |-> "doc", descs |-> descs]
Subject(bags)   == [el |-> "subject", bags |-> bags]
Other(id)       == [el |-> "other", id |-> id]

\* os.path.exists(xmp_path)
FileExists(file) == file.kind # "absent"

RECURSIVE Flatten(_)
Flatten(ss) == IF ss = <<>> THEN <<>> ELSE Head(ss) \o Flatten(Tail(ss))

\* root.xpath('.//dc:subject/rdf:Bag/rdf:li'), in document order
LiTexts(doc) ==
    Flatten([d \in DOMAIN doc.descs |->
        Flatten([c \in DOMAIN doc.descs[d] |->
            IF doc.descs[d][c].el = "subject"
            THEN Flatten(doc.descs[d][c].bags)
            ELSE <<>>])])

\* for elem in elements: if elem.text: tags.append(elem.text.strip())
RECURSIVE StrippedTexts(_)
StrippedTexts(texts) ==
    IF texts = <<>> THEN <<>>
    ELSE IF Head(texts) # <<>>
         THEN <<Strip(Head(texts))>> \o StrippedTexts(Tail(texts))
         ELSE StrippedTexts(Tail(texts))

\* read_tags: [] when the file is absent or cannot be parsed
ReadTags(file) ==
    IF file.kind = "doc" THEN StrippedTexts(LiTexts(file)) ELSE <<>>

\* (mutation) every new tag is appended, present or not
CombineTagsNoDedup(all, new) == all \o new

\* all_tags = list(existing_tags); for tag in new_tags: if tag not in
\* all_tags: all_tags.append(tag)
RECURSIVE CombineTags(_, _)
CombineTags(all, new) ==
    IF new = <<>> THEN all
    ELSE IF Head(new) \in SeqToSet(all)
         THEN CombineTags(all, Tail(new))
         ELSE CombineTags(Append(all, Head(new)), Tail(new))

\* tree.write(xmp_path, ...): the file is opened for writing (truncated) and
\* the serialised document written into it.
\*   "none"     the write succeeds
\*   "open"     the file cannot be opened: it is left as it was
\*   "partial"  the write fails after the file was truncated
WriteFaults == {"none", "open", "partial"}

TreeWrite(file, doc, fault) ==
    CASE fault = "none"    -> [ok |-> TRUE,  file |-> doc]
      [] fault = "open"    -> [ok |-> FALSE, file |-> file]
      [] fault = "partial" -> [ok |-> FALSE, file |-> CorruptFile]

\* _create_xmp: xmpmeta / RDF / Description / dc:subject / Bag / li*
CreateXmp(file, tags, fault) ==
    TreeWrite(file, Document(<<(<<Subject(<<tags>>)>>)>>), fault)

\* The children of a description without its dc:subject elements
RECURSIVE WithoutSubjects(_)
WithoutSubjects(children) ==
    IF children = <<>> THEN <<>>
    ELSE IF Head(children).el = "subject"
         THEN WithoutSubjects(Tail(children))
         ELSE <<Head(children)>> \o WithoutSubjects(Tail(children))

\* (mutation) the document is built anew instead of being updated
UpdateXmpAsCreate(file, tags, fault) == CreateXmp(file, tags, fault)

\* _update_xmp: parse; in the first rdf:Description remove every dc:subject
\* and append a new one holding all the tags; write.
UpdateXmp(file, tags, fault) ==
    IF file.kind # "doc"
    THEN [ok |-> FALSE, file |-> file]          \* etree.parse raises
    ELSE IF file.descs = <<>>
    THEN [ok |-> FALSE, file |-> file]          \* no rdf:Description
    ELSE TreeWrite(file,
             Document(<<Append(WithoutSubjects(file.descs[1]),
                               Subject(<<tags>>))>>
                      \o Tail(file.descs)),
             fault)

\* write_tags: the return value and the file afterwards
WriteTags(file, newTags, fault) ==
    IF newTags = <<>> THEN [ok |-> TRUE, file |-> file]
    ELSE LET allTags == CombineTags(ReadTags(file), newTags) IN
         IF FileExists(file)
         THEN UpdateXmp(file, allTags, fault)
         ELSE CreateXmp(file, allTags, fault)

NoWrite ==
    [op |-> "none", tags |-> <<>>, ok |-> TRUE, fileBefore |-> AbsentFile,
     n |-> 0, pure |-> FALSE, prevTags |-> <<>>]

\* A tag as the tag generator is expected to deliver it
PlainTag(t) == t # <<>> /\ Strip(t) = t

\* One call write_tags(image_path, tags) for the image of this sidecar.
WriteTagsCall(tags, fault) ==
    LET r == WriteTags(xmpFile, tags, fault) IN
    /\ lastWrite.n < MaxWrites
    /\ xmpFile' = r.file
    /\ lastWrite' =
         [op |-> "write", tags |-> tags, ok |-> r.ok, fileBefore |-> xmpFile,
          n |-> lastWrite.n + 1,
          pure |-> /\ lastWrite.pure /\ r.ok
                   /\ \A i \in DOMAIN tags : PlainTag(tags[i]),
          prevTags |-> lastWrite.tags]
    /\ UNCHANGED <<catVars, batchVars, auxVars>>

\* Sidecars found next to a photo before the first call.
ExistingFiles ==
    { AbsentFile,
      CorruptFile,
      Document(<<>>),
      Document(<<(<<Other(1)>>)>>),
      Document(<<(<<Other(1), Subject(<<(<<(<<"A">>), (<<"B">>)>>)>>)>>)>>),
      Document(<<(<<Subject(<<(<<(<<"A">>)>>)>>), Other(1)>>),
                 (<<Subject(<<(<<(<<"B">>)>>)>>)>>)>>) }

InitXmp ==
    /\ xmpFile \in ExistingFiles
    /\ lastWrite = [NoWrite EXCEPT !.pure = (xmpFile = AbsentFile)]

XmpUnused == xmpFile = AbsentFile /\ lastWrite = NoWrite

(***************************************************************************)
(*                BATCH COORDINATOR: PhotoTaggerGUI                        *)
(***************************************************************************)
MaxPhotos == 2      \* photos the source can hold
MaxRuns == 2        \* worker threads started in one history

BatchPhotoIds == 1..MaxPhotos

\* The photos of a source that had one photo more when the run began
AllPhotoIds == 1..(MaxPhotos + 1)

\* What the source (catalog or folder) can enumerate: the photos present, in
\* the order of the listing (ORDER BY ai.id_local, os.walk)
Sources ==
    {s \in SeqsUpTo(BatchPhotoIds, MaxPhotos) :
        \A i, j \in DOMAIN s : i < j => s[i] < s[j]}

\* source_mode, write_to_catalog, write_to_xmp as _validate_inputs accepts
\* them (one destination at least; folder mode writes XMP only): both
\* destinations, the catalog alone, a folder.
Configs ==
    { [mode |-> "catalog", wcat |-> TRUE,  wxmp |-> TRUE],
      [mode |-> "catalog", wcat |-> TRUE,  wxmp |-> FALSE],
      [mode |-> "folder",  wcat |-> FALSE, wxmp |-> TRUE] }

\* __init__: catalog mode, both destinations
DefaultConfig == [mode |-> "catalog", wcat |-> TRUE, wxmp |-> TRUE]

\* The five counters
ZeroCounters ==
    [photos_analyzed |-> 0, photos_tagged |-> 0,
     stats_tags_written_catalog |-> 0, stats_tags_written_xmp |-> 0,
     stats_xmp_skipped_no_file |-> 0]

AddCounters(a, b) ==
    [photos_analyzed |-> a.photos_analyzed + b.photos_analyzed,
     photos_tagged |-> a.photos_tagged + b.photos_tagged,
     stats_tags_written_catalog |->
         a.stats_tags_written_catalog + b.stats_tags_written_catalog,
     stats_tags_written_xmp |->
         a.stats_tags_written_xmp + b.stats_tags_written_xmp,
     stats_xmp_skipped_no_file |->
         a.stats_xmp_skipped_no_file + b.stats_xmp_skipped_no_file]

\* What one photo meets while it is processed: whether an image could be
\* loaded, whether the tag generator returned tags, whether add_tags
\* succeeded, and the sidecar write: done, failed, or no original file.
PhotoEnvs ==
    { [image |-> FALSE, tags |-> FALSE, catOk |-> FALSE, xmp |-> "fail"],
      [image |-> TRUE, tags |-> FALSE, catOk |-> FALSE, xmp |-> "fail"],
      [image |-> TRUE, tags |-> TRUE, catOk |-> TRUE, xmp |-> "ok"],
      [image |-> TRUE, tags |-> TRUE, catOk |-> TRUE, xmp |-> "nofile"],
      [image |-> TRUE, tags |-> TRUE, catOk |-> FALSE, xmp |-> "fail"] }

Bit(b) == IF b THEN 1 ELSE 0

\* (mutation) a failed catalog write ends the photo: the sidecar is not
\* written
PhotoDeltaCatalogBlocks(cfg, env) ==
    IF ~env.image THEN ZeroCounters
    ELSE IF ~env.tags THEN [ZeroCounters EXCEPT !.photos_analyzed = 1]
    ELSE LET cat  == cfg.mode = "catalog" /\ cfg.wcat /\ env.catOk
             gone == cfg.mode = "catalog" /\ cfg.wcat /\ ~env.catOk
             xmp  == ~gone /\ cfg.wxmp /\ env.xmp = "ok"
             skip == /\ ~gone /\ cfg.mode = "catalog" /\ cfg.wxmp
                     /\ env.xmp = "nofile"
         IN  [photos_analyzed |-> 1,
              photos_tagged |-> Bit(cat \/ xmp),
              stats_tags_written_catalog |-> Bit(cat),
              stats_tags_written_xmp |-> Bit(xmp),
              stats_xmp_skipped_no_file |-> Bit(skip)]

\* _process_single_photo: the change of the counters
PhotoDelta(cfg, env) ==
    IF ~env.image THEN ZeroCounters
    ELSE IF ~env.tags THEN [ZeroCounters EXCEPT !.photos_analyzed = 1]
    ELSE LET cat  == cfg.mode = "catalog" /\ cfg.wcat /\ env.catOk
             xmp  == cfg.wxmp /\ env.xmp = "ok"
             skip == cfg.mode = "catalog" /\ cfg.wxmp /\ env.xmp = "nofile"
         IN  [photos_analyzed |-> 1,
              photos_tagged |-> Bit(cat \/ xmp),
              stats_tags_written_catalog |-> Bit(cat),
              stats_tags_written_xmp |-> Bit(xmp),
              stats_xmp_skipped_no_file |-> Bit(skip)]

\* photo_tagger_state.json
AbsentState  == [kind |-> "absent"]
CorruptState == [kind |-> "corrupt"]

\* _save_state: the record written
SavedState(g) ==
    [kind |-> "saved", cfg |-> g.cfg,
     current_photo |-> g.current_photo, total_photos |-> g.total_photos,
     counters |-> g.counters]

\* (mutation) the counters are not taken from the saved state
RestoreStateNoCounters(g, state) ==
    [g EXCEPT !.cfg = state.cfg,
              !.current_photo = state.current_photo,
              !.total_photos = state.total_photos,
              !.counters = ZeroCounters]

\* _restore_state
RestoreState(g, state) ==
    [g EXCEPT !.cfg = state.cfg,
              !.current_photo = state.current_photo,
              !.total_photos = state.total_photos,
              !.counters = state.counters]

\* PhotoTaggerGUI.__init__; the RESUME button is enabled when a state file
\* exists.  dialog: the confirmation box the GUI thread is showing.
InitialGui(file) ==
    [is_processing |-> FALSE, should_stop |-> FALSE, should_pause |-> FALSE,
     current_photo |-> 0, total_photos |-> 0, counters |-> ZeroCounters,
     cfg |-> DefaultConfig,
     running_controls |-> FALSE, resume_btn |-> file.kind # "absent",
     dialog |-> "none"]

IdleWorker == [pc |-> "idle", photos |-> <<>>, i |-> 0]

NoHistory ==
    [outcome |-> "none", chain |-> FALSE, snapshot |-> <<>>,
     processed |-> [p \in AllPhotoIds |-> 0], ref |-> ZeroCounters,
     refCfg |-> DefaultConfig, resumed |-> FALSE, pausedAt |-> 0,
     stopIssued |-> FALSE, resumeError |-> FALSE, runs |-> 0,
     late |-> {}]

\* A history is followed only while it is a chain; afterwards only the
\* outcome of the worker, the stop request, the number of runs and the
\* photos a resumed segment enumerated beyond those of the start are kept.
Track(h) ==
    IF h.chain THEN h
    ELSE [NoHistory EXCEPT !.outcome = h.outcome,
                           !.stopIssued = h.stopIssued,
                           !.resumeError = h.resumeError, !.runs = h.runs,
                           !.late = h.late]

InitBatch ==
    /\ source \in Sources
    /\ stateFile = AbsentState
    /\ gui = InitialGui(stateFile)
    /\ worker = IdleWorker
    /\ hist = NoHistory

\* A source from which photos are removed, or to which photos are added,
\* at the end of the list (ORDER BY ai.id_local / os.walk order)
ResumeSources == { [i \in 1..n |-> i] : n \in AllPhotoIds }

InitResume ==
    /\ source \in ResumeSources
    /\ stateFile = AbsentState
    /\ gui = InitialGui(stateFile)
    /\ worker = IdleWorker
    /\ hist = NoHistory

BatchUnused ==
    /\ source = <<>> /\ stateFile = AbsentState
    /\ gui = InitialGui(AbsentState)
    /\ worker = IdleWorker /\ hist = NoHistory

othersUnchanged == UNCHANGED <<catVars, xmpVars, auxVars>>

(* ------------------------- the GUI thread ------------------------------ *)

\* _start_processing (START is enabled, _validate_inputs accepted cfg)
StartProcessing(cfg) ==
    /\ ~gui.running_controls /\ gui.dialog = "none"
    /\ gui' = [gui EXCEPT !.cfg = cfg,
                          !.running_controls = TRUE, !.resume_btn = FALSE,
                          !.is_processing = TRUE,
                          !.should_stop = FALSE, !.should_pause = FALSE,
                          !.current_photo = 0, !.total_photos = 0,
                          !.counters = ZeroCounters]
    /\ worker' = [pc |-> "enum", photos |-> <<>>, i |-> 0]
    /\ hist.runs < MaxRuns
    /\ hist' = [NoHistory EXCEPT !.chain = TRUE, !.refCfg = cfg,
                                 !.runs = hist.runs + 1]
    /\ UNCHANGED <<source, stateFile>>
    /\ othersUnchanged

\* The STOP button is pressed: _stop_processing shows askyesno
ClickStop ==
    /\ gui.running_controls /\ gui.dialog = "none"
    /\ gui' = [gui EXCEPT !.dialog = "stop"]
    /\ UNCHANGED <<source, stateFile, worker, hist>>
    /\ othersUnchanged

\* _stop_processing, answer yes: self.should_stop = True
ConfirmStop ==
    /\ gui.dialog = "stop"
    /\ gui' = [gui EXCEPT !.should_stop = TRUE, !.dialog = "stopRemove"]
    /\ hist' = [hist EXCEPT !.stopIssued = (@ \/ worker.pc # "idle")]
    /\ UNCHANGED <<source, stateFile, worker>>
    /\ othersUnchanged

\* _stop_processing: if os.path.exists(state_file): os.remove(state_file)
StopRemoveState ==
    /\ gui.dialog = "stopRemove"
    /\ gui' = [gui EXCEPT !.dialog = "none"]
    /\ stateFile' = AbsentState
    /\ UNCHANGED <<source, worker, hist>>
    /\ othersUnchanged

\* _stop_processing, answer no
DeclineStop ==
    /\ gui.dialog = "stop"
    /\ gui' = [gui EXCEPT !.dialog = "none"]
    /\ UNCHANGED <<source, stateFile, worker, hist>>
    /\ othersUnchanged

\* _pause_processing, answer yes while the worker runs:
\* self.should_pause = True.  (An answer given after the worker has ended sets
\* a flag that _start_processing and _resume_processing reset before any
\* worker reads it.)
PauseProcessing ==
    /\ gui.running_controls /\ gui.dialog = "none"
    /\ worker.pc # "idle"
    /\ gui' = [gui EXCEPT !.should_pause = TRUE]
    /\ UNCHANGED <<source, stateFile, worker, hist>>
    /\ othersUnchanged

\* _resume_processing with a loadable state file, confirmed by the user
ResumeProcessing ==
    /\ ~gui.running_controls /\ gui.dialog = "none" /\ gui.resume_btn
    /\ stateFile.kind = "saved"
    /\ hist.runs < MaxRuns
    /\ gui' = [RestoreState(gui, stateFile) EXCEPT
                  !.running_controls = TRUE, !.resume_btn = FALSE,
                  !.is_processing = TRUE,
                  !.should_stop = FALSE, !.should_pause = FALSE]
    /\ worker' = [pc |-> "enum", photos |-> <<>>, i |-> 0]
    /\ hist' = Track([hist EXCEPT
                  !.chain = (@ /\ hist.outcome = "Paused"),
                  !.outcome = "none", !.resumed = TRUE,
                  !.stopIssued = FALSE, !.resumeError = FALSE,
                  !.runs = @ + 1])
    /\ UNCHANGED <<source, stateFile>>
    /\ othersUnchanged

\* _resume_processing without a state file, or with one that does not load:
\* showerror, nothing else
ResumeFails ==
    /\ ~gui.running_controls /\ gui.dialog = "none" /\ gui.resume_btn
    /\ stateFile.kind \in {"absent", "corrupt"}
    /\ hist' = [hist EXCEPT !.resumeError = TRUE]
    /\ UNCHANGED <<source, stateFile, gui, worker>>
    /\ othersUnchanged

\* The application is closed and started again while no run is active (and
\* another run can follow): the fields are those of __init__ again
RestartApplication ==
    /\ worker.pc = "idle" /\ gui.dialog = "none"
    /\ gui # InitialGui(stateFile)
    /\ hist.runs < MaxRuns
    /\ gui' = InitialGui(stateFile)
    /\ UNCHANGED <<source, stateFile, worker, hist>>
    /\ othersUnchanged

(* ------------------------- the environment ----------------------------- *)

\* Photos are added to or removed from the catalog or the folder while a
\* run is interrupted.  The worker reads the source once, in GetPhotos, so a
\* change during a run has the effect of the same change after it; before a
\* START every source is already an initial one.
SourceChanges(s) ==
    /\ s # source /\ worker.pc = "idle" /\ gui.dialog = "none"
    /\ hist.runs < MaxRuns /\ stateFile.kind = "saved"
    /\ source' = s
    /\ UNCHANGED <<stateFile, gui, worker, hist>>
    /\ othersUnchanged

(* ------------------------- the worker thread --------------------------- *)

\* Leaving _process_photos: finally, lightroom_manager.close(), _reset_ui()
ResetUi(g, file) ==
    [g EXCEPT !.is_processing = FALSE,
              !.should_stop = FALSE, !.should_pause = FALSE,
              !.running_controls = FALSE,
              !.resume_btn = file.kind # "absent"]

\* photos = self._get_photos_to_process(); an exception (no connection) or an
\* empty list ends the run with _show_error.  late: the history keeps the
\* photos a resumed segment enumerates beyond those of the start.
GetPhotosOf(fails, late) ==
    /\ worker.pc = "enum"
    /\ IF fails \/ source = <<>>
       THEN /\ worker' = [worker EXCEPT !.pc = "finally"]
            /\ hist' = Track([hist EXCEPT !.outcome = "Error",
                                          !.chain = FALSE])
            /\ gui' = gui
       ELSE /\ worker' = [pc |-> "loop", photos |-> source, i |-> 0]
            /\ gui' = [gui EXCEPT !.total_photos = Len(source)]
            /\ hist' = IF hist.resumed
                       THEN Track([hist EXCEPT
                               !.chain = (@ /\ source = hist.snapshot),
                               !.late = IF late /\ hist.chain
                                        THEN SeqToSet(source)
                                             \ SeqToSet(hist.snapshot)
                                        ELSE @])
                       ELSE [hist EXCEPT !.snapshot = source]
    /\ UNCHANGED <<source, stateFile>>
    /\ othersUnchanged

GetPhotos(fails) == GetPhotosOf(fails, FALSE)

\* for i, photo in enumerate(photos): the next iteration or the end of the
\* loop; if self.current_photo > 0 and i < self.current_photo: continue
LoopNext ==
    /\ worker.pc = "loop"
    /\ worker' =
         IF worker.i >= Len(worker.photos)
         THEN [worker EXCEPT !.pc = "afterStop"]
         ELSE IF gui.current_photo > 0 /\ worker.i < gui.current_photo
         THEN [worker EXCEPT !.i = @ + 1]
         ELSE [worker EXCEPT !.pc = "checkStop"]
    /\ UNCHANGED <<source, stateFile, gui, hist>>
    /\ othersUnchanged

\* if self.should_stop: break
CheckStop ==
    /\ worker.pc = "checkStop"
    /\ IF gui.should_stop
       THEN /\ worker' = [worker EXCEPT !.pc = "afterStop"]
            /\ hist' = [hist EXCEPT !.outcome = "Stopped"]
       ELSE /\ worker' = [worker EXCEPT !.pc = "checkPause"]
            /\ hist' = hist
    /\ UNCHANGED <<source, stateFile, gui>>
    /\ othersUnchanged

\* (mutation) the cursor is advanced before should_pause is read
CheckPauseAfterCursor ==
    /\ worker.pc = "checkPause"
    /\ worker' = [worker EXCEPT
                    !.pc = IF gui.should_pause THEN "save" ELSE "process"]
    /\ gui' = [gui EXCEPT !.current_photo = worker.i + 1]
    /\ UNCHANGED <<source, stateFile, hist>>
    /\ othersUnchanged

\* if self.should_pause: ... else: self.current_photo = i + 1
CheckPause ==
    /\ worker.pc = "checkPause"
    /\ IF gui.should_pause
       THEN /\ worker' = [worker EXCEPT !.pc = "save"]
            /\ gui' = gui
       ELSE /\ worker' = [worker EXCEPT !.pc = "process"]
            /\ gui' = [gui EXCEPT !.current_photo = worker.i + 1]
    /\ UNCHANGED <<source, stateFile, hist>>
    /\ othersUnchanged

\* self._save_state(); return.  The write can fail before the file is opened
\* ("open": the file is left as it was) or while it is written ("partial").
SaveFaults == {"none", "open", "partial"}

SaveState(fault) ==
    /\ worker.pc = "save"
    /\ stateFile' = CASE fault = "none"    -> SavedState(gui)
                      [] fault = "open"    -> stateFile
                      [] fault = "partial" -> CorruptState
    /\ worker' = [worker EXCEPT !.pc = "finally"]
    /\ hist' = Track([hist EXCEPT
                  !.outcome = IF fault = "none" THEN "Paused"
                              ELSE "PausedUnsaved",
                  !.pausedAt = gui.current_photo])
    /\ UNCHANGED <<source, gui>>
    /\ othersUnchanged

\* (mutation) a photo whose image does not load ends the loop: the
\* exception reaches the handler around the whole run
ProcessSinglePhotoEscapes(env) ==
    /\ worker.pc = "process"
    /\ (gui.cfg.mode = "folder" => env.xmp # "nofile")
    /\ gui' = [gui EXCEPT
                 !.counters = AddCounters(@, PhotoDelta(gui.cfg, env))]
    /\ worker' = IF env.image
                 THEN [worker EXCEPT !.pc = "loop", !.i = @ + 1]
                 ELSE [worker EXCEPT !.pc = "finally", !.i = @ + 1]
    /\ hist' = Track([hist EXCEPT
                  !.outcome = IF env.image THEN @ ELSE "Error",
                  !.processed[worker.photos[worker.i + 1]] = @ + 1,
                  !.ref = AddCounters(@, PhotoDelta(hist.refCfg, env))])
    /\ UNCHANGED <<source, stateFile>>
    /\ othersUnchanged

\* self._process_single_photo(photo): every exception is caught
ProcessSinglePhoto(env) ==
    /\ worker.pc = "process"
    /\ (gui.cfg.mode = "folder" => env.xmp # "nofile")
    /\ gui' = [gui EXCEPT
                 !.counters = AddCounters(@, PhotoDelta(gui.cfg, env))]
    /\ worker' = [worker EXCEPT !.pc = "loop", !.i = @ + 1]
    /\ hist' = Track([hist EXCEPT
                  !.processed[worker.photos[worker.i + 1]] = @ + 1,
                  !.ref = AddCounters(@, PhotoDelta(hist.refCfg, env))])
    /\ UNCHANGED <<source, stateFile>>
    /\ othersUnchanged

\* After the loop: "if not self.should_stop" ...
AfterLoopStop ==
    /\ worker.pc = "afterStop"
    /\ worker' = [worker EXCEPT
                    !.pc = IF gui.should_stop THEN "finally" ELSE "afterPause"]
    /\ hist' = [hist EXCEPT
                  !.outcome = IF gui.should_stop THEN "Stopped" ELSE @]
    /\ UNCHANGED <<source, stateFile, gui>>
    /\ othersUnchanged

\* ... "and not self.should_pause": remove the state file, show the report
AfterLoopPause ==
    /\ worker.pc = "afterPause"
    /\ worker' = [worker EXCEPT !.pc = "finally"]
    /\ IF gui.should_pause
       THEN /\ stateFile' = stateFile
            /\ hist' = [hist EXCEPT !.outcome = "Exhausted"]
       ELSE /\ stateFile' = AbsentState
            /\ hist' = [hist EXCEPT !.outcome = "Completed"]
    /\ UNCHANGED <<source, gui>>
    /\ othersUnchanged

\* finally: close the catalog, _reset_ui(); the thread ends
WorkerEnds ==
    /\ worker.pc = "finally"
    /\ gui' = [ResetUi(gui, stateFile) EXCEPT !.dialog = gui.dialog]
    /\ worker' = IdleWorker
    /\ UNCHANGED <<source, stateFile, hist>>
    /\ othersUnchanged

(***************************************************************************)
(*        SIDECARS OF A FOLDER: XMPManager.get_xmp_path                    *)
(***************************************************************************)
\* Image files the folder walk keeps (supported_formats), in the folder and
\* in a sub-folder of it; a path is parent / stem + ext.
ImagePath(parent, stem, ext) == [parent |-> parent, stem |-> stem, ext |-> ext]

FolderPhotos ==
    { ImagePath("dir", "a", ".jpg"), ImagePath("dir", "a", ".cr2"),
      ImagePath("dir", "b", ".jpg"), ImagePath("dir/sub", "a", ".jpg") }

\* get_xmp_path: path.parent / (path.stem + '.xmp')
GetXmpPath(image_path) ==
    [parent |-> image_path.parent, name |-> image_path.stem \o ".xmp"]

XmpPaths == { GetXmpPath(p) : p \in FolderPhotos }

\* read_tags(image_path) on the files of the folder
ReadTagsOf(files, image_path) == ReadTags(files[GetXmpPath(image_path)])

SidecarTagLists == { <<(<<"A">>)>>, <<(<<"B">>)>>, <<(<<"A">>), <<"C">> >> }

NoSidecarCall ==
    [op |-> "none", photo |-> ImagePath("", "", ""), tags |-> <<>>,
     ok |-> TRUE, before |-> [x \in XmpPaths |-> AbsentFile], n |-> 0]

\* One call write_tags(image_path, tags) of the batch (line 1141 / 1156).
WriteTagsOf(image_path, tags, fault) ==
    \E r \in {WriteTags(sidecars[GetXmpPath(image_path)], tags, fault)} :
        /\ sidecarCall.n < MaxWrites
        /\ sidecars' = [sidecars EXCEPT ![GetXmpPath(image_path)] = r.file]
        /\ sidecarCall' =
             [op |-> "write", photo |-> image_path, tags |-> tags,
              ok |-> r.ok, before |-> sidecars, n |-> sidecarCall.n + 1]
        /\ UNCHANGED <<catVars, xmpVars, batchVars,
                       previewCall, manager, photoCall,
                   lateVars>>

\* The folder before the run: each photo has a sidecar or has none.
InitFolder ==
    /\ sidecars \in
         [XmpPaths -> {AbsentFile, Document(<<(<<Subject(<<(<<(<<"A">>)>>)>>)>>)>>)}]
    /\ sidecarCall = NoSidecarCall

FolderUnused ==
    /\ sidecars = [x \in XmpPaths |-> AbsentFile]
    /\ sidecarCall = NoSidecarCall

(***************************************************************************)
(*      PREVIEW RESOLUTION: LightroomManager.get_smart_preview             *)
(***************************************************************************)
\* The candidate paths of the smart preview file below the .lrdata folder,
\* in the order they are tried.
Patterns ==
    << "X/XXXX/UUID.dng", "x/xxxx/UUID.dng", "X/XXXX/UUID.DNG",
       "X/UUID.dng", "UUID.dng" >>

\* How the lookup of a blob ends: the table was not detected, the query
\* raises sqlite3.Error, there is no row (or an empty blob), Image.open
\* raises on the blob, Image.open returns an image.
BlobLookups == {"notable", "sqlerror", "norow", "undecodable", "decodable"}

\* A file of the .lrdata folder: os.path.exists is false, Image.open raises,
\* Image.open returns an image.
FileStates == {"absent", "undecodable", "decodable"}

NoFiles == [i \in DOMAIN Patterns |-> "absent"]

\* How the lookup of the sharded file goes: catalog_path is unset, no
\* Smart Previews.lrdata folder exists, the fileUUID query raises, the photo
\* has no AgDNGProxyInfo row, or the row is found and the files are as given.
ShardedLookups ==
    { [lookup |-> l, files |-> NoFiles] :
          l \in {"nopath", "nofolder", "sqlerror", "nouuid"} }
    \cup { [lookup |-> "uuid", files |-> f] :
               f \in [DOMAIN Patterns -> FileStates] }

\* What one photo has in one catalog, as seen by one manager.
PreviewInputs ==
    [conn : BOOLEAN, pyramid : BlobLookups, sharded : ShardedLookups,
     standard : BlobLookups]

NoImage == [source |-> "none", pattern |-> 0]
ImageFrom(level, pattern) == [source |-> level, pattern |-> pattern]

\* for i, pattern in enumerate(patterns, 1): the first file that exists and
\* that Image.open accepts; a file it rejects is skipped (continue).
RECURSIVE FirstDecodableFile(_, _)
FirstDecodableFile(files, i) ==
    IF i > Len(Patterns) THEN NoImage
    ELSE IF files[i] = "decodable" THEN ImageFrom("sharded", i)
    ELSE FirstDecodableFile(files, i + 1)

\* _get_smart_preview_pyramid: method 1 (SQL blob), then method 2 (.lrdata)
GetSmartPreviewPyramid(in) ==
    IF in.pyramid = "decodable" THEN ImageFrom("pyramid", 0)
    ELSE IF in.sharded.lookup = "uuid"
         THEN FirstDecodableFile(in.sharded.files, 1)
         ELSE NoImage

\* _get_standard_preview
GetStandardPreview(in) ==
    IF in.standard = "decodable" THEN ImageFrom("standard", 0) ELSE NoImage

\* (mutation) the standard preview is tried before the smart preview
GetSmartPreviewStandardFirst(in) ==
    IF ~in.conn THEN NoImage
    ELSE IF GetStandardPreview(in) # NoImage THEN GetStandardPreview(in)
    ELSE GetSmartPreviewPyramid(in)

\* get_smart_preview
GetSmartPreview(in) ==
    IF ~in.conn THEN NoImage
    ELSE IF GetSmartPreviewPyramid(in) # NoImage
         THEN GetSmartPreviewPyramid(in)
    ELSE IF GetStandardPreview(in) # NoImage
         THEN GetStandardPreview(in)
    ELSE NoImage

NoPreviewCall ==
    [stage |-> "unused",
     in |-> [conn |-> FALSE, pyramid |-> "notable",
             sharded |-> [lookup |-> "nopath", files |-> NoFiles],
             standard |-> "notable"],
     image |-> NoImage]

\* One call get_smart_preview(photo_id)
GetSmartPreviewCall ==
    /\ previewCall.stage = "called"
    /\ previewCall' = [previewCall EXCEPT
                          !.stage = "returned",
                          !.image = GetSmartPreview(previewCall.in)]
    /\ UNCHANGED <<catVars, xmpVars, batchVars,
                   sidecars, sidecarCall, manager, photoCall,
                   lateVars>>

InitPreview ==
    previewCall \in
        { [stage |-> "called", in |-> in, image |-> NoImage] :
              in \in PreviewInputs }

PreviewUnused == previewCall = NoPreviewCall

(***************************************************************************)
(*      SCHEMA DETECTION: LightroomManager.connect / close                 *)
(***************************************************************************)
MaxConnects == 2     \* connect calls on one manager

None == "None"

PyramidCandidates ==
    << "Adobe_previewCachePyramid", "Adobe_imageDevelopBeforeSettings",
       "Adobe_variablesTable" >>
PreviewCandidates ==
    << "Adobe_previewCache", "Adobe_libraryImageDevelopHistoryStep" >>

CandidateTables == SeqToSet(PyramidCandidates) \cup SeqToSet(PreviewCandidates)

\* A candidate table in a catalog: not in sqlite_master, there without a
\* 'data' column, there with one.
TableStates == {"absent", "nodata", "data"}

\* A catalog file is what it holds of the candidate tables.
Catalogs == [CandidateTables -> TableStates]

\* for candidate in candidates: if candidate in tables and 'data' in
\* columns: assign and break.  Without such a candidate nothing is assigned
\* and the field keeps the value it has.
RECURSIVE DetectFirst(_, _, _)
DetectFirst(candidates, tables, field) ==
    IF candidates = <<>> THEN field
    ELSE IF tables[Head(candidates)] = "data" THEN Head(candidates)
    ELSE DetectFirst(Tail(candidates), tables, field)

\* _detect_preview_tables; listFails: the sqlite_master query raises
\* sqlite3.Error, which is logged and swallowed.
DetectPreviewTables(m, tables, listFails) ==
    IF listFails THEN m
    ELSE [m EXCEPT
            !.pyramid_table = DetectFirst(PyramidCandidates, tables, @),
            !.preview_table = DetectFirst(PreviewCandidates, tables, @)]

NoCatalog == [c \in CandidateTables |-> "absent"]

NoManagerCall ==
    [op |-> "none", ok |-> FALSE, catalog |-> NoCatalog, listFails |-> FALSE,
     n |-> 0]

\* __init__
NewManager ==
    [conn |-> FALSE, catalog_path |-> None,
     pyramid_table |-> None, preview_table |-> None, last |-> NoManagerCall]

\* How connect goes: the path does not exist; sqlite3.connect raises; the
\* file opens and the table listing raises (not a database); the file opens
\* and its tables are listed.
ConnectOutcomes == {"missing", "sqlerror", "listfails", "connected"}

\* connect(catalog_path) on the catalog file c
Connect(c, outcome) ==
    /\ manager.last.n < MaxConnects
    /\ manager' =
         IF outcome \in {"missing", "sqlerror"}
         THEN [manager EXCEPT
                 !.last = [op |-> "connect", ok |-> FALSE, catalog |-> c,
                           listFails |-> FALSE, n |-> manager.last.n + 1]]
         ELSE [DetectPreviewTables(
                   [manager EXCEPT !.conn = TRUE, !.catalog_path = "lrcat"],
                   c, outcome = "listfails")
               EXCEPT
                 !.last = [op |-> "connect", ok |-> TRUE, catalog |-> c,
                           listFails |-> outcome = "listfails",
                           n |-> manager.last.n + 1]]
    /\ UNCHANGED <<catVars, xmpVars, batchVars,
                   sidecars, sidecarCall, previewCall, photoCall,
                   lateVars>>

\* close()
Close ==
    /\ manager.conn
    /\ manager' = [manager EXCEPT !.conn = FALSE,
                                  !.last.op = "close"]
    /\ UNCHANGED <<catVars, xmpVars, batchVars,
                   sidecars, sidecarCall, previewCall, photoCall,
                   lateVars>>

InitManager == manager = NewManager

ManagerUnused == manager = NewManager

(***************************************************************************)
(*      ONE PHOTO: PhotoTaggerGUI._process_single_photo                    *)
(***************************************************************************)
\* Every combination of what a photo can meet
AllPhotoEnvs ==
    [image : BOOLEAN, tags : BOOLEAN, catOk : BOOLEAN,
     xmp : {"ok", "fail", "nofile"}]

\* _process_single_photo: the calls made to the two destinations;
\* add_tags when write_to_catalog is set, write_tags when write_to_xmp is
\* set and (catalog mode) the original file exists
PhotoWrites(cfg, env) ==
    IF ~env.image \/ ~env.tags
    THEN [add_tags |-> FALSE, write_tags |-> FALSE]
    ELSE [add_tags   |-> cfg.mode = "catalog" /\ cfg.wcat,
          write_tags |-> /\ cfg.wxmp
                         /\ (cfg.mode = "catalog" => env.xmp # "nofile")]

\* Counters of a batch under way
SomeCounters ==
    [photos_analyzed |-> 2, photos_tagged |-> 1,
     stats_tags_written_catalog |-> 1, stats_tags_written_xmp |-> 1,
     stats_xmp_skipped_no_file |-> 0]

NoPhotoCall ==
    [stage |-> "unused", cfg |-> DefaultConfig,
     env |-> [image |-> FALSE, tags |-> FALSE, catOk |-> FALSE,
              xmp |-> "fail"],
     before |-> ZeroCounters, counters |-> ZeroCounters,
     writes |-> [add_tags |-> FALSE, write_tags |-> FALSE]]

\* One call _process_single_photo(photo)
ProcessSinglePhotoCall ==
    /\ photoCall.stage = "called"
    /\ photoCall' =
         [photoCall EXCEPT
            !.stage = "returned",
            !.counters = AddCounters(@, PhotoDelta(photoCall.cfg,
                                                   photoCall.env)),
            !.writes = PhotoWrites(photoCall.cfg, photoCall.env)]
    /\ UNCHANGED <<catVars, xmpVars, batchVars,
                   sidecars, sidecarCall, previewCall, manager,
                   lateVars>>

InitPhoto ==
    /\ photoCall \in
          { [NoPhotoCall EXCEPT !.stage = "called", !.cfg = cfg,
                                !.env = env, !.before = c, !.counters = c] :
                cfg \in Configs, env \in AllPhotoEnvs,
                c \in {ZeroCounters, SomeCounters} }
    /\ photoCall.cfg.mode = "folder" => photoCall.env.xmp # "nofile"

PhotoUnused == photoCall = NoPhotoCall

(***************************************************************************)
(*   ORIGINALS ON MOUNTED VOLUMES: disk_accessible_cache                   *)
(***************************************************************************)
\* Paths are sequences of components (photo_path.split(os.sep)); the first
\* component of an absolute path is the empty string.
OriginalPaths ==
    { <<"", "Volumes", "A", "p.jpg">>, <<"", "Volumes", "A", "q.jpg">>,
      <<"", "media", "user", "B", "r.jpg">> }

\* os.sep.join(path_parts[:n])
FirstParts(path_parts, n) ==
    SubSeq(path_parts, 1, IF n < Len(path_parts) THEN n ELSE Len(path_parts))

\* The mount point of a path (lines 1025-1037)
DiskMount(path_parts) ==
    IF Len(path_parts) >= 2 /\ path_parts[1] = "" /\ path_parts[2] = "Volumes"
    THEN FirstParts(path_parts, 3)
    ELSE IF /\ Len(path_parts) >= 2
            /\ path_parts[1] = "" /\ path_parts[2] = "media"
    THEN FirstParts(path_parts, 4)
    ELSE FirstParts(path_parts, 2)

Mounts == { DiskMount(p) : p \in OriginalPaths }

\* A photo of the catalog: the path of its original and whether the catalog
\* holds a preview of it.
MountPhotos == [full_path : OriginalPaths, preview : BOOLEAN]

\* The photos of a catalog are distinct files
MountPhotoLists ==
    { l \in SeqsUpTo(MountPhotos, MaxPhotos) :
        /\ l # <<>>
        /\ \A j, k \in DOMAIN l : j # k => l[j].full_path # l[k].full_path }

\* A run: the cache, the counters and what happened to each photo
NewRun ==
    [cache |-> [m \in Mounts |-> "unknown"], counters |-> ZeroCounters,
     results |-> <<>>]

\* One photo in catalog mode.  reach: the mounts that are reachable now (a
\* file exists when its mount is reachable); memoised: the mount check goes
\* through disk_accessible_cache, otherwise it always answers true.  The
\* tag generator and add_tags succeed.
ProcessOriginal(run, cfg, photo, reach, memoised) ==
    LET disk_mount == DiskMount(photo.full_path)
        known      == memoised /\ run.cache[disk_mount] # "unknown"
        checks     == ~photo.preview /\ memoised /\ ~known
        disk_accessible ==
            IF ~memoised THEN TRUE
            ELSE IF known THEN run.cache[disk_mount] = "yes"
            ELSE reach[disk_mount]
        loads      == ~photo.preview /\ disk_accessible
        image      == IF photo.preview THEN "preview"
                      ELSE IF loads /\ reach[disk_mount] THEN "file"
                      ELSE "none"
        env        == [image |-> image # "none", tags |-> TRUE,
                       catOk |-> TRUE,
                       xmp |-> IF reach[disk_mount] THEN "ok" ELSE "nofile"]
        exists     == image # "none" /\ cfg.wxmp
        writes     == PhotoWrites(cfg, env)
    IN  [cache |-> IF checks
                   THEN [run.cache EXCEPT ![disk_mount] =
                            IF reach[disk_mount] THEN "yes" ELSE "no"]
                   ELSE run.cache,
         counters |-> AddCounters(run.counters, PhotoDelta(cfg, env)),
         results |-> Append(run.results,
             [image |-> image, add_tags |-> writes.add_tags,
              write_tags |-> writes.write_tags,
              mount_checked |-> checks,
              path_accessed |-> loads \/ exists])]

CatalogConfigs == { c \in Configs : c.mode = "catalog" }

\* The next photo of the list, in the run with the memoised check and in
\* the run whose check always answers true.
ProcessNextOriginal ==
    /\ mountRun.stage = "running"
    /\ mountRun.i < Len(mountRun.photos)
    /\ LET photo == mountRun.photos[mountRun.i + 1] IN
       mountRun' =
         [mountRun EXCEPT
            !.i = @ + 1,
            !.recorded = mountRun.memo.cache[DiskMount(photo.full_path)],
            !.memo = ProcessOriginal(@, mountRun.cfg, photo,
                                     mountRun.reach, TRUE),
            !.plain = ProcessOriginal(@, mountRun.cfg, photo,
                                      mountRun.reach, FALSE)]
    /\ UNCHANGED <<catVars, xmpVars, batchVars, sidecars, sidecarCall,
                   previewCall, manager, photoCall,
                   endToEnd, txn, suffixCall>>

\* A volume is mounted or unmounted while the run goes on
MountChanges(m) ==
    /\ mountRun.stage = "running"
    /\ mountRun.i < Len(mountRun.photos)
    /\ mountRun' = [mountRun EXCEPT !.reach[m] = ~@]
    /\ UNCHANGED <<catVars, xmpVars, batchVars, sidecars, sidecarCall,
                   previewCall, manager, photoCall,
                   endToEnd, txn, suffixCall>>

NoMountRun ==
    [stage |-> "unused", cfg |-> DefaultConfig, photos |-> <<>>,
     reach |-> [m \in Mounts |-> FALSE], i |-> 0, recorded |-> "unknown",
     memo |-> NewRun, plain |-> NewRun]

\* _start_processing: counters and cache are reset (lines 612-625)
InitMount ==
    mountRun \in
        { [NoMountRun EXCEPT !.stage = "running", !.cfg = cfg,
                             !.photos = photos, !.reach = reach] :
              cfg \in CatalogConfigs, photos \in MountPhotoLists,
              reach \in [Mounts -> BOOLEAN] }

MountUnused == mountRun = NoMountRun

(***************************************************************************)
(*     A STATE FILE WITH MISSING KEYS: _load_state, _restore_state         *)
(***************************************************************************)
\* The keys _restore_state reads, in the order in which it assigns them
StateKeys ==
    << "source_mode", "write_to_catalog", "write_to_xmp",
       "current_photo", "total_photos", "photos_analyzed", "photos_tagged",
       "stats_tags_written_catalog", "stats_tags_written_xmp",
       "stats_xmp_skipped_no_file" >>

KeyIndex(key) == CHOOSE n \in DOMAIN StateKeys : StateKeys[n] = key

\* _load_state logs state['current_photo'] and state['total_photos'] inside
\* its try: without one of them it returns None
LoadKeys == {"current_photo", "total_photos"}

\* state.get('photos_analyzed', 0), state.get('photos_tagged', 0)
OptionalKeys == {"photos_analyzed", "photos_tagged"}

\* A parseable state file in which one key is absent
IncompleteState(state, key) ==
    [kind |-> "incomplete", missing |-> key, cfg |-> state.cfg,
     current_photo |-> state.current_photo,
     total_photos |-> state.total_photos, counters |-> state.counters]

\* One assignment of _restore_state
RestoreKey(g, state, key) ==
    CASE key = "source_mode" -> [g EXCEPT !.cfg.mode = state.cfg.mode]
      [] key = "write_to_catalog" -> [g EXCEPT !.cfg.wcat = state.cfg.wcat]
      [] key = "write_to_xmp" -> [g EXCEPT !.cfg.wxmp = state.cfg.wxmp]
      [] key = "current_photo" ->
             [g EXCEPT !.current_photo = state.current_photo]
      [] key = "total_photos" ->
             [g EXCEPT !.total_photos = state.total_photos]
      [] key \in OptionalKeys ->
             [g EXCEPT !.counters[key] =
                 IF state.kind = "incomplete" /\ state.missing = key
                 THEN 0 ELSE state.counters[key]]
      [] OTHER -> [g EXCEPT !.counters[key] = state.counters[key]]

\* The first n assignments of _restore_state
RECURSIVE RestoreKeys(_, _, _)
RestoreKeys(g, state, n) ==
    IF n = 0 THEN g
    ELSE RestoreKey(RestoreKeys(g, state, n - 1), state, StateKeys[n])

\* The files a RESUME can meet: none being written by a run of this version,
\* they come from a pause (complete), from another version of the program
\* or an edit (a key absent), or from an interrupted write (corrupt)
PersistedCounters ==
    { [ZeroCounters EXCEPT !.photos_analyzed = 1], SomeCounters }

PersistedStates ==
    { [kind |-> "saved", cfg |-> cfg, current_photo |-> k,
       total_photos |-> n, counters |-> c] :
        cfg \in Configs, k \in BatchPhotoIds, n \in BatchPhotoIds,
        c \in PersistedCounters }

\* What _save_state can have written: the cursor within the total, no more
\* photos analysed than the cursor, no write to a destination that is off
WrittenStates ==
    { f \in PersistedStates :
        /\ f.current_photo <= f.total_photos
        /\ f.counters.photos_analyzed <= f.current_photo
        /\ (~f.cfg.wcat => f.counters.stats_tags_written_catalog = 0)
        /\ (~f.cfg.wxmp => f.counters.stats_tags_written_xmp = 0) }

RestoreFiles ==
    WrittenStates
    \cup { IncompleteState(f, StateKeys[n]) :
             f \in WrittenStates, n \in DOMAIN StateKeys }
    \cup { CorruptState }

\* _resume_processing with a state file in which a key is absent.  Without
\* current_photo or total_photos _load_state returns None: showerror.
\* Without an optional key the state is restored with 0 in its place and
\* the worker is started.  Without another key _restore_state raises
\* KeyError at that key, after the assignments before it: the handler ends
\* there, no worker is started.
ResumeIncomplete ==
    /\ ~gui.running_controls /\ gui.dialog = "none" /\ gui.resume_btn
    /\ stateFile.kind = "incomplete"
    /\ hist.runs < MaxRuns
    /\ CASE stateFile.missing \in LoadKeys ->
              /\ hist' = [hist EXCEPT !.resumeError = TRUE]
              /\ UNCHANGED <<gui, worker>>
         [] stateFile.missing \in OptionalKeys ->
              /\ gui' = [RestoreKeys(gui, stateFile, Len(StateKeys)) EXCEPT
                           !.running_controls = TRUE, !.resume_btn = FALSE,
                           !.is_processing = TRUE,
                           !.should_stop = FALSE, !.should_pause = FALSE]
              /\ worker' = [pc |-> "enum", photos |-> <<>>, i |-> 0]
              /\ hist' = Track([hist EXCEPT
                            !.chain = FALSE,
                            !.outcome = "none", !.resumed = TRUE,
                            !.stopIssued = FALSE, !.resumeError = FALSE,
                            !.runs = @ + 1])
         [] OTHER ->
              /\ gui' = RestoreKeys(gui, stateFile,
                                    KeyIndex(stateFile.missing) - 1)
              /\ UNCHANGED <<worker, hist>>
    /\ UNCHANGED <<source, stateFile>>
    /\ othersUnchanged

\* The state file is removed while the application shows RESUME enabled
StateFileLost ==
    /\ worker.pc = "idle" /\ stateFile.kind # "absent"
    /\ stateFile' = AbsentState
    /\ UNCHANGED <<source, gui, worker, hist>>
    /\ othersUnchanged

\* The application has been started with a state file present
InitRestore ==
    /\ source = [n \in BatchPhotoIds |-> n]
    /\ stateFile \in RestoreFiles
    /\ gui = InitialGui(stateFile)
    /\ worker = IdleWorker
    /\ hist = NoHistory

(***************************************************************************)
(*          TAG SUFFIX: TagSuffixManager, _generate_tags_for_image         *)
(***************************************************************************)
MaxTagLen == 3      \* characters of a generated tag

\* Strings are sequences of characters
Chars == {"a", "i", "_"}

Montagne == <<"M", "o", "n", "t", "a", "g", "n", "e">>

\* config.py
TAG_SUFFIX == <<"_", "a", "i">>
TAG_SUFFIX_ENABLED == TRUE
TAG_SUFFIX_SEPARATOR == <<"_">>

\* Tags the generator returns (never empty)
GeneratedTags ==
    (SeqsUpTo(Chars, MaxTagLen) \ {<<>>}) \cup {Montagne}

\* What the suffix field of the window can hold
SuffixFields == { TAG_SUFFIX, <<"a", "i">>, <<>> }

\* str.endswith
EndsWith(tag, ending) ==
    /\ Len(ending) <= Len(tag)
    /\ SubSeq(tag, Len(tag) - Len(ending) + 1, Len(tag)) = ending

\* TagSuffixManager(suffix, enabled, separator=None).add_suffix(tag)
add_suffix(suffix, enabled, tag) ==
    LET full_suffix == TAG_SUFFIX_SEPARATOR \o suffix
    IN  IF ~enabled \/ tag = <<>> THEN tag
        ELSE IF EndsWith(tag, full_suffix) THEN tag
        ELSE tag \o full_suffix

\* TagSuffixManager.add_suffix_to_list, called by apply_suffix_to_tags
add_suffix_to_list(suffix, enabled, tags) ==
    IF ~enabled THEN tags
    ELSE [n \in DOMAIN tags |-> add_suffix(suffix, enabled, tags[n])]

\* _generate_tags_for_image: the last step, on the tags generated
TagsWithSuffix(enabled, suffix, tags) ==
    IF enabled
    THEN IF suffix # <<>> THEN add_suffix_to_list(suffix, TRUE, tags)
         ELSE tags
    ELSE tags

\* _update_suffix_example: the text after "Montagne -> "
SuffixExample(enabled, suffix) ==
    IF enabled THEN Montagne \o suffix ELSE <<>>

NoSuffixCall ==
    [stage |-> "unused", enabled |-> TAG_SUFFIX_ENABLED,
     suffix |-> TAG_SUFFIX, tags |-> <<>>, written |-> <<>>,
     again |-> <<>>]

\* The suffix step on one list of generated tags, and on its own result
GenerateTagsSuffix ==
    /\ suffixCall.stage = "generated"
    /\ \E w \in { TagsWithSuffix(suffixCall.enabled, suffixCall.suffix,
                                 suffixCall.tags) } :
         suffixCall' =
             [suffixCall EXCEPT
                !.stage = "written", !.written = w,
                !.again = TagsWithSuffix(suffixCall.enabled,
                                         suffixCall.suffix, w)]
    /\ UNCHANGED <<catVars, xmpVars, batchVars, sidecars, sidecarCall,
                   previewCall, manager, photoCall, mountRun, endToEnd, txn>>

InitSuffix ==
    suffixCall \in
        { [NoSuffixCall EXCEPT !.stage = "generated", !.enabled = enabled,
                               !.suffix = suffix, !.tags = <<tag>>] :
            enabled \in BOOLEAN, suffix \in SuffixFields,
            tag \in GeneratedTags }

(***************************************************************************)
(*     THE CATALOG TRANSACTION OF A PHOTO: add_tags, step by step          *)
(***************************************************************************)
\* The worker between two photos of a catalog run with write_to_catalog on.
\*   pc        where the worker is
\*   photo     number of the photo being processed
\*   open      the connection has an open transaction
\*   inferring _generate_tags_for_image is running
\*   tags      number of tags generated for the photo
\*   tag       number of the tag the loop of add_tags is at
\*   results   how add_tags ended for the photos before
NewWorkerTxn ==
    [pc |-> "next", photo |-> 0, open |-> FALSE, inferring |-> FALSE,
     tags |-> 0, tag |-> 0, results |-> <<>>]

NoTxn == [NewWorkerTxn EXCEPT !.pc = "unused"]

txnOthersUnchanged ==
    UNCHANGED <<catVars, xmpVars, batchVars, sidecars, sidecarCall,
                previewCall, manager, photoCall, mountRun, endToEnd,
                suffixCall>>

\* for i, photo in enumerate(photos): the image is loaded and
\* tags = self._generate_tags_for_image(image) is called
GenerateTagsBegins ==
    /\ txn.pc = "next" /\ txn.photo < MaxPhotos
    /\ txn' = [txn EXCEPT !.pc = "infer", !.photo = @ + 1,
                          !.inferring = TRUE, !.tags = 0, !.tag = 0]
    /\ txnOthersUnchanged

\* _generate_tags_for_image returns (or raises: tags = []); "if not tags:
\* return" ends the photo
GenerateTagsEnds(tags) ==
    /\ txn.pc = "infer"
    /\ txn' = IF tags > 0
              THEN [txn EXCEPT !.pc = "add_tags", !.inferring = FALSE,
                               !.tags = tags]
              ELSE [txn EXCEPT !.pc = "next", !.inferring = FALSE,
                               !.results = Append(@, "no tags")]
    /\ txnOthersUnchanged

\* add_tags: "if not self.conn: return False"; get_existing_tags (its
\* sqlite3.Error is swallowed); cursor.execute("BEGIN TRANSACTION")
BeginTransaction(outcome) ==
    /\ txn.pc = "add_tags"
    /\ txn' = CASE outcome = "no connection" ->
                     [txn EXCEPT !.pc = "xmp",
                                 !.results = Append(@, "no connection")]
                [] outcome = "begun" ->
                     [txn EXCEPT !.pc = "loop", !.open = TRUE, !.tag = 1]
                [] outcome = "error" ->
                     [txn EXCEPT !.pc = "except"]
    /\ txnOthersUnchanged

\* for tag in tags: one iteration.
\*   skipped    the tag is already linked: continue
\*   linked     INSERT statements were executed (the sqlite3 module begins a
\*              transaction before an INSERT when none is open)
\*   swallowed  a sqlite3.Error in _get_or_create_keyword: return None,
\*              continue
\*   raised     a sqlite3.Error of the statements on AgLibraryKeywordImage
\*              leaves the loop
\* SQLite ends the transaction itself on some errors (disk full, I/O
\* error): ended.
LoopOutcomes == {"skipped", "linked", "swallowed", "raised"}

TagsLoop(outcome, ended) ==
    /\ txn.pc = "loop"
    /\ (ended => outcome \in {"swallowed", "raised"})
    /\ LET isOpen == CASE ended -> FALSE
                       [] outcome = "linked" -> TRUE
                       [] OTHER -> txn.open
       IN  txn' = IF outcome = "raised"
                  THEN [txn EXCEPT !.pc = "except", !.open = isOpen]
                  ELSE IF txn.tag < txn.tags
                  THEN [txn EXCEPT !.open = isOpen, !.tag = @ + 1]
                  ELSE [txn EXCEPT !.open = isOpen, !.pc = "commit"]
    /\ txnOthersUnchanged

\* cursor.execute("COMMIT"); return True.  A COMMIT that fails (database
\* locked, or no transaction left to commit) leaves the transaction as it
\* is.
Commit(fails) ==
    /\ txn.pc = "commit"
    /\ (~txn.open => fails)
    /\ txn' = IF fails
              THEN [txn EXCEPT !.pc = "except"]
              ELSE [txn EXCEPT !.pc = "xmp", !.open = FALSE,
                               !.results = Append(@, "committed")]
    /\ txnOthersUnchanged

\* (mutation) the handler only logs the error and returns False
ExceptWithoutRollback ==
    /\ txn.pc = "except"
    /\ txn' = [txn EXCEPT !.pc = "xmp",
                          !.results =
                             Append(@, IF txn.open THEN "rolled back"
                                       ELSE "nothing to roll back")]
    /\ txnOthersUnchanged

\* except sqlite3.Error: self.conn.execute("ROLLBACK") inside try/except:
\* pass; return False.  ROLLBACK ends the open transaction; without one
\* it raises, which is swallowed.
ExceptRollback ==
    /\ txn.pc = "except"
    /\ txn' = [txn EXCEPT !.pc = "xmp", !.open = FALSE,
                          !.results =
                             Append(@, IF txn.open THEN "rolled back"
                                       ELSE "nothing to roll back")]
    /\ txnOthersUnchanged

\* The sidecar of the photo (write_to_xmp), then the next iteration
AfterAddTags ==
    /\ txn.pc = "xmp"
    /\ txn' = [txn EXCEPT !.pc = "next"]
    /\ txnOthersUnchanged

InitTxn == txn = NewWorkerTxn

(***************************************************************************)
(*     A WHOLE RUN ON A CATALOG OF THREE PHOTOS, BOTH DESTINATIONS         *)
(***************************************************************************)
\* Photo 1 has a smart preview (pyramid), photo 2 only a standard preview,
\* photo 3 no preview and an original that can be read.
RunPhotos == <<1, 2, 3>>

Test == <<"T", "e", "s", "t">>

NoSharded == [lookup |-> "nouuid", files |-> NoFiles]

\* The two places a smart preview can be in: the blob of the pyramid table,
\* a file of the Smart Previews.lrdata folder
PyramidPreviews ==
    { [conn |-> TRUE, pyramid |-> "decodable", sharded |-> NoSharded,
       standard |-> "norow"],
      [conn |-> TRUE, pyramid |-> "norow",
       sharded |-> [lookup |-> "uuid",
                    files |-> [NoFiles EXCEPT ![1] = "decodable"]],
       standard |-> "norow"] }

StandardPreview ==
    [conn |-> TRUE, pyramid |-> "norow", sharded |-> NoSharded,
     standard |-> "decodable"]

NoPreview ==
    [conn |-> TRUE, pyramid |-> "norow", sharded |-> NoSharded,
     standard |-> "norow"]

NoEndToEnd ==
    [stage |-> "unused", i |-> 0,
     enabled |-> TAG_SUFFIX_ENABLED, suffix |-> TAG_SUFFIX,
     previews |-> <<NoPreview, NoPreview, NoPreview>>,
     originals |-> <<FALSE, FALSE, FALSE>>,
     kw |-> {}, ed |-> EmptyBag,
     xmp |-> <<AbsentFile, AbsentFile, AbsentFile>>,
     images |-> <<>>, counters |-> ZeroCounters]

\* _process_single_photo for the next photo of the list (catalog mode,
\* write_to_catalog and write_to_xmp on), the tag generator returning
\* ["Test"] before the suffix step
ProcessRunPhoto ==
    /\ endToEnd.stage = "running" /\ endToEnd.i < Len(RunPhotos)
    /\ LET photo   == RunPhotos[endToEnd.i + 1]
           preview == GetSmartPreview(endToEnd.previews[photo])
           image   == IF preview # NoImage THEN preview
                      ELSE IF endToEnd.originals[photo]
                      THEN ImageFrom("file", 0)
                      ELSE NoImage
           tags    == TagsWithSuffix(endToEnd.enabled, endToEnd.suffix,
                                     <<Test>>)
           added   == AddTags(endToEnd.kw, endToEnd.ed, photo, tags, NoFault)
           written == WriteTags(endToEnd.xmp[photo], tags, "none")
           env     == [image |-> image # NoImage, tags |-> tags # <<>>,
                       catOk |-> added.ok,
                       xmp |-> IF ~endToEnd.originals[photo] THEN "nofile"
                               ELSE IF written.ok THEN "ok" ELSE "fail"]
       IN  endToEnd' =
             [endToEnd EXCEPT
                !.i = @ + 1,
                !.stage = IF endToEnd.i + 1 = Len(RunPhotos)
                          THEN "completed" ELSE @,
                !.images = Append(@, image),
                !.kw = IF image # NoImage THEN added.kw ELSE @,
                !.ed = IF image # NoImage THEN added.ed ELSE @,
                !.xmp[photo] =
                    IF image # NoImage /\ endToEnd.originals[photo]
                    THEN written.file ELSE @,
                !.counters = AddCounters(@, PhotoDelta(DefaultConfig, env))]
    /\ UNCHANGED <<catVars, xmpVars, batchVars, sidecars, sidecarCall,
                   previewCall, manager, photoCall, mountRun, txn,
                   suffixCall>>

\* A catalog without links, no sidecar yet; the originals of photos 1 and 2
\* on disk or not; the suffix settings of the window as the user left them
InitEndToEnd ==
    endToEnd \in
        { [NoEndToEnd EXCEPT
              !.stage = "running", !.enabled = enabled, !.suffix = suffix,
              !.previews = <<p, StandardPreview, NoPreview>>,
              !.originals = <<o1, o2, TRUE>>, !.kw = kw] :
            enabled \in BOOLEAN, suffix \in SuffixFields,
            p \in PyramidPreviews, o1 \in BOOLEAN, o2 \in BOOLEAN,
            kw \in InitKeywordTables }

(***************************************************************************)
(*                          SPECIFICATIONS                                 *)
(***************************************************************************)
EndToEndUnused == endToEnd = NoEndToEnd
TxnUnused == txn = NoTxn
SuffixUnused == suffixCall = NoSuffixCall
LateUnused == MountUnused /\ EndToEndUnused /\ TxnUnused /\ SuffixUnused

AuxUnused ==
    LateUnused /\
    FolderUnused /\ PreviewUnused /\ ManagerUnused /\ PhotoUnused

NextCat ==
    \E photo \in PhotoIds, tags \in TagLists, fault \in Faults :
        AddTagsCall(photo, tags, fault)

InitSpecCat == InitCat /\ XmpUnused /\ BatchUnused /\ AuxUnused

SpecCat == InitSpecCat /\ [][NextCat]_vars

NextXmp ==
    \E tags \in XmpTagLists, fault \in WriteFaults : WriteTagsCall(tags, fault)

CatUnused == keywords = {} /\ edges = EmptyBag /\ lastAdd = NoCall

InitSpecXmp == InitXmp /\ CatUnused /\ BatchUnused /\ AuxUnused

SpecXmp == InitSpecXmp /\ [][NextXmp]_vars

NextFolder ==
    \E image_path \in FolderPhotos, tags \in SidecarTagLists,
       fault \in WriteFaults :
        WriteTagsOf(image_path, tags, fault)

InitSpecFolder ==
    /\ InitFolder /\ CatUnused /\ XmpUnused /\ BatchUnused
    /\ PreviewUnused /\ ManagerUnused /\ PhotoUnused
    /\ LateUnused

SpecFolder == InitSpecFolder /\ [][NextFolder]_vars

NextPreview == GetSmartPreviewCall

InitSpecPreview ==
    /\ InitPreview /\ CatUnused /\ XmpUnused /\ BatchUnused
    /\ FolderUnused /\ ManagerUnused /\ PhotoUnused
    /\ LateUnused

SpecPreview == InitSpecPreview /\ [][NextPreview]_vars

NextManager ==
    \/ \E c \in Catalogs : Connect(c, "connected")
    \/ \E outcome \in ConnectOutcomes \ {"connected"} :
           Connect(NoCatalog, outcome)
    \/ Close

InitSpecManager ==
    /\ InitManager /\ CatUnused /\ XmpUnused /\ BatchUnused
    /\ FolderUnused /\ PreviewUnused /\ PhotoUnused
    /\ LateUnused

SpecManager == InitSpecManager /\ [][NextManager]_vars

NextPhoto == ProcessSinglePhotoCall

InitSpecPhoto ==
    /\ InitPhoto /\ CatUnused /\ XmpUnused /\ BatchUnused
    /\ FolderUnused /\ PreviewUnused /\ ManagerUnused
    /\ LateUnused

SpecPhoto == InitSpecPhoto /\ [][NextPhoto]_vars

NextMount ==
    \/ ProcessNextOriginal
    \/ \E m \in Mounts : MountChanges(m)

InitSpecMount ==
    /\ InitMount /\ CatUnused /\ XmpUnused /\ BatchUnused
    /\ FolderUnused /\ PreviewUnused /\ ManagerUnused /\ PhotoUnused
    /\ EndToEndUnused /\ TxnUnused /\ SuffixUnused

SpecMount == InitSpecMount /\ [][NextMount]_vars

NextRestore ==
    \/ ResumeProcessing
    \/ ResumeFails
    \/ ResumeIncomplete
    \/ StateFileLost

InitSpecRestore == InitRestore /\ CatUnused /\ XmpUnused /\ AuxUnused

SpecRestore == InitSpecRestore /\ [][NextRestore]_vars

NextSuffix == GenerateTagsSuffix

InitSpecSuffix ==
    /\ InitSuffix /\ CatUnused /\ XmpUnused /\ BatchUnused
    /\ FolderUnused /\ PreviewUnused /\ ManagerUnused /\ PhotoUnused
    /\ MountUnused /\ EndToEndUnused /\ TxnUnused

SpecSuffix == InitSpecSuffix /\ [][NextSuffix]_vars

NextTxn ==
    \/ GenerateTagsBegins
    \/ \E tags \in 0..MaxTags : GenerateTagsEnds(tags)
    \/ \E outcome \in {"no connection", "begun", "error"} :
           BeginTransaction(outcome)
    \/ \E outcome \in LoopOutcomes, ended \in BOOLEAN :
           TagsLoop(outcome, ended)
    \/ \E fails \in BOOLEAN : Commit(fails)
    \/ ExceptRollback
    \/ AfterAddTags

InitSpecTxn ==
    /\ InitTxn /\ CatUnused /\ XmpUnused /\ BatchUnused
    /\ FolderUnused /\ PreviewUnused /\ ManagerUnused /\ PhotoUnused
    /\ MountUnused /\ EndToEndUnused /\ SuffixUnused

SpecTxn == InitSpecTxn /\ [][NextTxn]_vars

NextEndToEnd == ProcessRunPhoto

InitSpecEndToEnd ==
    /\ InitEndToEnd /\ CatUnused /\ XmpUnused /\ BatchUnused
    /\ FolderUnused /\ PreviewUnused /\ ManagerUnused /\ PhotoUnused
    /\ MountUnused /\ TxnUnused /\ SuffixUnused

SpecEndToEnd == InitSpecEndToEnd /\ [][NextEndToEnd]_vars

NextBatch ==
    \/ \E cfg \in Configs : StartProcessing(cfg)
    \/ ClickStop
    \/ ConfirmStop
    \/ StopRemoveState
    \/ DeclineStop
    \/ PauseProcessing
    \/ ResumeProcessing
    \/ ResumeFails
    \/ RestartApplication
    \/ \E s \in Sources : SourceChanges(s)
    \/ \E fails \in BOOLEAN : GetPhotos(fails)
    \/ LoopNext
    \/ CheckStop
    \/ CheckPause
    \/ \E fault \in SaveFaults : SaveState(fault)
    \/ \E env \in PhotoEnvs : ProcessSinglePhoto(env)
    \/ AfterLoopStop
    \/ AfterLoopPause
    \/ WorkerEnds

\* The batch with both destinations and fault-free photos, paused and
\* resumed while the source changes in between.
FaultFreePhoto == [image |-> TRUE, tags |-> TRUE, catOk |-> TRUE, xmp |-> "ok"]

NextResume ==
    \/ StartProcessing(DefaultConfig)
    \/ PauseProcessing
    \/ ResumeProcessing
    \/ \E s \in ResumeSources : SourceChanges(s)
    \/ GetPhotosOf(FALSE, TRUE)
    \/ LoopNext
    \/ CheckStop
    \/ CheckPause
    \/ SaveState("none")
    \/ ProcessSinglePhoto(FaultFreePhoto)
    \/ AfterLoopStop
    \/ AfterLoopPause
    \/ WorkerEnds

InitSpecResume == InitResume /\ CatUnused /\ XmpUnused /\ AuxUnused

SpecResume == InitSpecResume /\ [][NextResume]_vars

InitSpecBatch == InitBatch /\ CatUnused /\ XmpUnused /\ AuxUnused

SpecBatch == InitSpecBatch /\ [][NextBatch]_vars

\* The worker is a thread (threading.Thread(target=self._process_photos)):
\* once started it runs each of its steps until _process_photos returns,
\* whatever the GUI thread does meanwhile.
WorkerStep ==
    \/ \E fails \in BOOLEAN : GetPhotos(fails)
    \/ LoopNext
    \/ CheckStop
    \/ CheckPause
    \/ \E fault \in SaveFaults : SaveState(fault)
    \/ \E env \in PhotoEnvs : ProcessSinglePhoto(env)
    \/ AfterLoopStop
    \/ AfterLoopPause
    \/ WorkerEnds

\* Runs begun by START, with the PAUSE and STOP buttons
NextRun ==
    \/ \E cfg \in Configs : StartProcessing(cfg)
    \/ ClickStop
    \/ ConfirmStop
    \/ StopRemoveState
    \/ DeclineStop
    \/ PauseProcessing
    \/ WorkerStep

SpecRunFair == InitSpecBatch /\ [][NextRun]_vars /\ WF_vars(WorkerStep)

(***************************************************************************)
(*                         CLAIMS: catalog                                 *)
(***************************************************************************)
TablesUnchangedByLastAdd ==
    keywords = lastAdd.kwBefore /\ edges = lastAdd.edBefore

\* C4: add_tags(p, T) applied a second time, right after a first application
\* that met no storage error, and meeting none itself, leaves the keyword
\* rows and the photo-keyword edges exactly as the first application left
\* them.
C4_Idempotent ==
    (lastAdd.repeat /\ ~lastAdd.err) => TablesUnchangedByLastAdd

\* C4 witness: a two-tag call that created rows is repeated without error.
C4_Witness ==
    /\ lastAdd.repeat /\ lastAdd.prevAdded /\ ~lastAdd.err /\ lastAdd.ok
    /\ Len(lastAdd.tags) = 2
    /\ lastAdd.tags[1] # lastAdd.tags[2]

\* C5: a call that meets no storage error and whose tags all equal, ignoring
\* case, tags already linked to the photo adds no edge and no keyword; and
\* add_tags(p, [t]) on a photo without tags (no keyword named t ignoring case)
\* followed by add_tags(p, [t']) with t' differing from t only in case leaves
\* exactly one edge for p and exactly one keyword row of that name.
C5_CaseInsensitiveMerge ==
    /\ ( /\ lastAdd.op = "add" /\ ~lastAdd.err
         /\ \A i \in DOMAIN lastAdd.tags :
                Lower(lastAdd.tags[i]) \in
                    LinkedLower(lastAdd.kwBefore, lastAdd.edBefore, lastAdd.photo) )
       => TablesUnchangedByLastAdd
    /\ (lastAdd.caseVariant /\ ~lastAdd.err)
       => /\ Cardinality(EdgesOf(edges, lastAdd.photo)) = 1
          /\ \A e \in EdgesOf(edges, lastAdd.photo) : CopiesIn(e, edges) = 1
          /\ Cardinality(RowsNamedNoCase(keywords, lastAdd.tags[1])) = 1

\* C5 witness: ["Pa"] then ["pa"] on a photo that had no tag.
C5_Witness ==
    /\ lastAdd.caseVariant /\ ~lastAdd.err /\ lastAdd.ok
    /\ lastAdd.tags = <<(<<"p", "a">>)>>

\* C6 (as claimed): after any sequence of add_tags calls, none of which met a
\* storage error, no photo is linked to two keywords whose names are equal
\* ignoring case.
C6_NoCaseDuplicateLinked ==
    lastAdd.clean =>
    \A p \in PhotoIds :
        \A r1, r2 \in {k \in keywords : BagIn(<<p, k.id_local>>, edges)} :
            Lower(r1.name) = Lower(r2.name) => r1 = r2

\* C7 (as claimed): a call during which a storage error was raised returns
\* failure and leaves both tables as they were; a call returns success only
\* when every tag of its list is linked (ignoring case) afterwards.
C7_AllOrNothing ==
    lastAdd.op = "add" =>
        /\ lastAdd.err => (~lastAdd.ok /\ TablesUnchangedByLastAdd)
        /\ lastAdd.ok =>
              \A i \in DOMAIN lastAdd.tags :
                  Lower(lastAdd.tags[i]) \in
                      LinkedLower(keywords, edges, lastAdd.photo)

\* C8: no (photo, keyword) pair appears twice in the association table.
C8_NoDuplicateEdge ==
    \A e \in BagToSet(edges) : CopiesIn(e, edges) = 1

\* C8 witness: a call naming the same tag twice for a photo that did not have
\* it: the second occurrence finds the edge the first one inserted.
C8_Witness ==
    /\ lastAdd.op = "add" /\ lastAdd.ok /\ ~lastAdd.err
    /\ Len(lastAdd.tags) = 2 /\ lastAdd.tags[1] = lastAdd.tags[2]
    /\ ~(Lower(lastAdd.tags[1]) \in
            LinkedLower(lastAdd.kwBefore, lastAdd.edBefore, lastAdd.photo))
    /\ Cardinality(EdgesOf(edges, lastAdd.photo)) =
           Cardinality(EdgesOf(lastAdd.edBefore, lastAdd.photo)) + 1

\* C9 (as claimed): after any sequence of add_tags calls, none of which met a
\* storage error, no two keyword rows have names that are equal ignoring case.
C9_KeywordNamesUniqueNoCase ==
    lastAdd.clean =>
    \A r1, r2 \in keywords : Lower(r1.name) = Lower(r2.name) => r1 = r2


(***************************************************************************)
(*                         CLAIMS: sidecar                                 *)
(***************************************************************************)
IndexOfFirst(seq, x) == CHOOSE i \in DOMAIN seq :
                            seq[i] = x /\ \A j \in 1..(i - 1) : seq[j] # x

\* r is prev followed by the tags of new that prev does not hold, each once,
\* in the order of their first occurrence in new.
IsMergeOf(r, prev, new) ==
    /\ Len(r) >= Len(prev)
    /\ SubSeq(r, 1, Len(prev)) = prev
    /\ LET added == SubSeq(r, Len(prev) + 1, Len(r)) IN
       /\ SeqToSet(added) = SeqToSet(new) \ SeqToSet(prev)
       /\ \A i, j \in DOMAIN added : i < j =>
              /\ added[i] # added[j]
              /\ IndexOfFirst(new, added[i]) < IndexOfFirst(new, added[j])

\* C10: starting without a sidecar, as long as every write_tags call gets
\* non-empty tags without surrounding blanks and succeeds, read_tags after a
\* call returns what read_tags returned before it followed by the tags of the
\* call not yet present, each once, in the order of the call (after the first
\* call: its list with repeats removed).
C10_RoundTripMerge ==
    (lastWrite.op = "write" /\ lastWrite.pure) =>
        IsMergeOf(ReadTags(xmpFile), ReadTags(lastWrite.fileBefore),
                  lastWrite.tags)

\* C10 witness: write_tags(["A","B"]) then write_tags(["B","C"]) on a photo
\* without sidecar reads back ["A","B","C"].
C10_Witness ==
    /\ lastWrite.op = "write" /\ lastWrite.pure /\ lastWrite.n = 2
    /\ lastWrite.prevTags = <<(<<"A">>), (<<"B">>)>>
    /\ lastWrite.tags = <<(<<"B">>), (<<"C">>)>>
    /\ ReadTags(lastWrite.fileBefore) = <<(<<"A">>), (<<"B">>)>>
    /\ ReadTags(xmpFile) = <<(<<"A">>), (<<"B">>), (<<"C">>)>>

NoRepeats(seq) == \A i, j \in DOMAIN seq : i # j => seq[i] # seq[j]

\* C11 (as claimed): after a successful write_tags of plain tags on an
\* existing parseable sidecar, whatever descriptions and tag lists it held,
\* read_tags returns a list without repeated tag: the tags read before the
\* call followed by the new ones.
C11_ExistingDocumentMerge ==
    (/\ lastWrite.op = "write" /\ lastWrite.ok
     /\ lastWrite.fileBefore.kind = "doc"
     /\ \A i \in DOMAIN lastWrite.tags : PlainTag(lastWrite.tags[i]))
        => /\ NoRepeats(ReadTags(xmpFile))
           /\ IsMergeOf(ReadTags(xmpFile), ReadTags(lastWrite.fileBefore),
                        lastWrite.tags)

\* Everything of a document but its tag lists: the children of each
\* rdf:Description without the dc:subject elements
Frame(file) == [d \in DOMAIN file.descs |-> WithoutSubjects(file.descs[d])]

\* C12: a successful write_tags on an existing sidecar leaves every element
\* other than the dc:subject subtrees as it was: the same descriptions with
\* the same other children in the same order.
C12_OnlyTagListChanges ==
    (/\ lastWrite.op = "write" /\ lastWrite.ok
     /\ lastWrite.fileBefore.kind = "doc")
        => /\ xmpFile.kind = "doc"
           /\ Frame(xmpFile) = Frame(lastWrite.fileBefore)

\* C12 witness: tags are written into a sidecar of two descriptions that
\* holds another element; the tag list changed, the other element is there.
C12_Witness ==
    /\ lastWrite.op = "write" /\ lastWrite.ok
    /\ lastWrite.fileBefore.kind = "doc"
    /\ Len(lastWrite.fileBefore.descs) = 2
    /\ xmpFile.kind = "doc" /\ xmpFile # lastWrite.fileBefore
    /\ ReadTags(xmpFile) # ReadTags(lastWrite.fileBefore)
    /\ Frame(xmpFile) = <<(<<Other(1)>>), <<>> >>

\* C13 (as claimed): when write_tags returns false the sidecar file is
\* exactly as it was before the call.
C13_FailedWriteLeavesFile ==
    (lastWrite.op = "write" /\ ~lastWrite.ok)
        => xmpFile = lastWrite.fileBefore

(* ----------------------- claims: sidecars of a folder ------------------- *)

\* C14 (as claimed): for two distinct photo files of the processed set, a
\* write_tags call for one never changes what read_tags returns for the
\* other.
C14_SidecarsAreSeparate ==
    sidecarCall.op = "write"
        => \A other \in FolderPhotos \ {sidecarCall.photo} :
               ReadTagsOf(sidecars, other)
                   = ReadTagsOf(sidecarCall.before, other)

(* ----------------------- claims: preview resolution --------------------- *)

\* The sources of a photo that are present and decodable
PyramidBlobUsable(in) == in.pyramid = "decodable"
ShardedFileUsable(in) ==
    /\ in.sharded.lookup = "uuid"
    /\ \E i \in DOMAIN Patterns : in.sharded.files[i] = "decodable"
StandardBlobUsable(in) == in.standard = "decodable"

\* C15: on a connected manager the image returned comes from the first of
\* pyramid blob, sharded file, standard blob that is present and decodable
\* (a failed lookup or decode falls through to the next), and nothing is
\* returned only when none of the three is.
C15_PreviewPriority ==
    (previewCall.stage = "returned" /\ previewCall.in.conn)
        => LET in == previewCall.in
               level == previewCall.image.source
           IN  /\ level = "pyramid"  <=> PyramidBlobUsable(in)
               /\ level = "sharded"  <=> /\ ~PyramidBlobUsable(in)
                                          /\ ShardedFileUsable(in)
               /\ level = "standard" <=> /\ ~PyramidBlobUsable(in)
                                          /\ ~ShardedFileUsable(in)
                                          /\ StandardBlobUsable(in)
               /\ level = "none"     <=> /\ ~PyramidBlobUsable(in)
                                          /\ ~ShardedFileUsable(in)
                                          /\ ~StandardBlobUsable(in)
               /\ level = "sharded"
                      => /\ in.sharded.files[previewCall.image.pattern]
                               = "decodable"
                         /\ \A j \in 1..(previewCall.image.pattern - 1) :
                               in.sharded.files[j] # "decodable"

\* The pyramid blob does not decode, the first sharded file exists and does
\* not decode, a later one does, a standard blob is there as well: the
\* later sharded file is returned.
C15_Witness ==
    /\ previewCall.stage = "returned" /\ previewCall.in.conn
    /\ previewCall.in.pyramid = "undecodable"
    /\ previewCall.in.sharded.lookup = "uuid"
    /\ previewCall.in.sharded.files[1] = "undecodable"
    /\ previewCall.in.standard = "decodable"
    /\ previewCall.image.source = "sharded"
    /\ previewCall.image.pattern > 1

(* ----------------------- claims: schema detection ----------------------- *)

\* The first candidate that exists in the catalog with a data column
RECURSIVE FirstWithData(_, _)
FirstWithData(candidates, tables) ==
    IF candidates = <<>> THEN None
    ELSE IF tables[Head(candidates)] = "data" THEN Head(candidates)
    ELSE FirstWithData(Tail(candidates), tables)

\* C16 (as claimed): after every successful connect(c) whose table listing
\* succeeded, the detected pyramid table and the detected preview table are
\* each the first candidate that exists in c with a data column, and absent
\* when c has none, whatever catalogs the manager was connected to before.
C16_DetectionOfThisCatalog ==
    (/\ manager.last.op = "connect" /\ manager.last.ok
     /\ ~manager.last.listFails)
        => /\ manager.pyramid_table
                 = FirstWithData(PyramidCandidates, manager.last.catalog)
           /\ manager.preview_table
                 = FirstWithData(PreviewCandidates, manager.last.catalog)

(* ----------------------- claims: one photo ------------------------------ *)

\* A photo with an image and tags, processed with both destinations enabled
BothDestinations ==
    /\ photoCall.stage = "returned"
    /\ photoCall.env.image /\ photoCall.env.tags
    /\ photoCall.cfg.mode = "catalog"
    /\ photoCall.cfg.wcat /\ photoCall.cfg.wxmp

\* The change of one counter by the call
Gained(counter) == photoCall.counters[counter] - photoCall.before[counter]

\* C19: the two destinations are independent.  With tags and both
\* destinations enabled, add_tags is called, write_tags is called whenever
\* the original file is there, whether or not add_tags failed, and each
\* destination's counter follows the outcome of its own write alone.
C19_IndependentDestinations ==
    BothDestinations
        => /\ photoCall.writes.add_tags
           /\ photoCall.writes.write_tags <=> photoCall.env.xmp # "nofile"
           /\ Gained("stats_tags_written_catalog")
                 = Bit(photoCall.env.catOk)
           /\ Gained("stats_tags_written_xmp")
                 = Bit(photoCall.env.xmp = "ok")
           /\ Gained("stats_xmp_skipped_no_file")
                 = Bit(photoCall.env.xmp = "nofile")
           /\ Gained("photos_tagged")
                 = Bit(photoCall.env.catOk \/ photoCall.env.xmp = "ok")

\* The catalog write failed and the sidecar was written and counted
C19_Witness ==
    /\ BothDestinations
    /\ ~photoCall.env.catOk /\ photoCall.env.xmp = "ok"
    /\ photoCall.writes.write_tags
    /\ Gained("stats_tags_written_catalog") = 0
    /\ Gained("stats_tags_written_xmp") = 1
    /\ photoCall.before = SomeCounters

\* C20 (as claimed): a photo whose image cannot be loaded, or for which no
\* tags come back, is counted as analyzed and not as tagged, nothing is
\* written to a destination and the destination counters do not change.
C20_SkipAccounting ==
    (/\ photoCall.stage = "returned"
     /\ ~photoCall.env.image \/ ~photoCall.env.tags)
        => /\ Gained("photos_analyzed") = 1
           /\ Gained("photos_tagged") = 0
           /\ ~photoCall.writes.add_tags /\ ~photoCall.writes.write_tags
           /\ Gained("stats_tags_written_catalog") = 0
           /\ Gained("stats_tags_written_xmp") = 0
           /\ Gained("stats_xmp_skipped_no_file") = 0

(* ----------------------- claims: originals on volumes ------------------- *)

\* The photo processed last in the run with the memoised check
LastOriginal == mountRun.photos[mountRun.i]
LastResult == mountRun.memo.results[mountRun.i]

\* C21 (as claimed): a photo whose original lies under a mount recorded as
\* unreachable is skipped when it has to be read from the original, and no
\* filesystem access to the path of the photo is made while it is
\* processed.
C21_UnreachableVolumeSkip ==
    (mountRun.i > 0 /\ mountRun.recorded = "no")
        => /\ ~LastOriginal.preview => LastResult.image = "none"
           /\ ~LastResult.path_accessed

\* C22 (as claimed): the run with the memoised mount check and the run
\* whose check always answers true load the same images, make the same
\* writes and end with the same counters.
C22_CacheIsPureOptimisation ==
    (mountRun.stage = "running" /\ mountRun.i = Len(mountRun.photos))
        => /\ mountRun.memo.counters = mountRun.plain.counters
           /\ \A k \in DOMAIN mountRun.memo.results :
                 /\ mountRun.memo.results[k].image
                       = mountRun.plain.results[k].image
                 /\ mountRun.memo.results[k].add_tags
                       = mountRun.plain.results[k].add_tags
                 /\ mountRun.memo.results[k].write_tags
                       = mountRun.plain.results[k].write_tags

(* ----------------------- claims: resume from a state file -------------- *)
\* C23 (as claimed): a RESUME that meets a missing, unreadable or incomplete
\* state file starts no worker and leaves the configuration, the cursor and
\* the counters of the coordinator as they were.
C23_ResumeErrorIsBlocking ==
    [][ (stateFile.kind # "saved" /\ stateFile' = stateFile)
            => /\ worker' = worker
               /\ gui'.cfg = gui.cfg
               /\ gui'.current_photo = gui.current_photo
               /\ gui'.counters = gui.counters ]_vars

(* ----------------------- claims: tag suffix ----------------------------- *)
\* C30 (as claimed): with the default configuration (suffix "_ai", enabled)
\* a generated tag that does not end with "_ai" is written as the tag
\* followed by "_ai" exactly, which is what the example of the window shows,
\* and the suffix step applied to its own result changes nothing.
C30_SuffixAsDocumented ==
    (/\ suffixCall.stage = "written"
     /\ suffixCall.enabled = TAG_SUFFIX_ENABLED
     /\ suffixCall.suffix = TAG_SUFFIX)
        => /\ ~EndsWith(suffixCall.tags[1], TAG_SUFFIX)
                => suffixCall.written = <<suffixCall.tags[1] \o TAG_SUFFIX>>
           /\ suffixCall.tags = <<Montagne>>
                => suffixCall.written =
                     <<SuffixExample(suffixCall.enabled, suffixCall.suffix)>>
           /\ suffixCall.again = suffixCall.written

(* ----------------------- claims: catalog transaction ------------------- *)
\* C28: no tag generation runs while the connection has an open
\* transaction, and when the worker has left add_tags (sidecar step, next
\* photo, tag generation) the transaction add_tags began is closed, also
\* when add_tags ended in its error handler.
C28_NoInferenceInsideTransaction ==
    /\ ~(txn.inferring /\ txn.open)
    /\ txn.pc \in {"xmp", "next", "infer"} => ~txn.open

\* The tag generation of a photo runs after the add_tags of the photo
\* before it began a transaction and ended in the error handler.
C28_Witness ==
    /\ txn.pc = "infer" /\ txn.inferring /\ txn.photo > 1
    /\ txn.results[Len(txn.results)] = "rolled back"

(* ----------------------- claims: a whole run --------------------------- *)
\* C24 (as claimed): the completed run on the three-photo catalog leaves 3
\* new photo-keyword links, a sidecar for each photo holding exactly
\* ["Test"], and the counters analyzed = 3, tagged = 3.
C24_EndToEnd ==
    endToEnd.stage = "completed"
        => /\ BagCardinality(endToEnd.ed) = Len(RunPhotos)
           /\ \A n \in DOMAIN RunPhotos :
                ReadTags(endToEnd.xmp[RunPhotos[n]]) = <<Test>>
           /\ endToEnd.counters.photos_analyzed = Len(RunPhotos)
           /\ endToEnd.counters.photos_tagged = Len(RunPhotos)

\* C25 (as claimed): the photos a run processes, across its pause and
\* resume segments, are those enumerated when it started: a photo that
\* entered the source after the start is not processed in that run.
C25_FixedSnapshot ==
    [][ (worker.pc = "process" /\ worker'.pc = "loop")
            => worker.photos[worker.i + 1] \notin hist.late ]_vars

(* ----------------------- claims: batch coordinator --------------------- *)

RECURSIVE SumProcessed(_, _)
SumProcessed(f, S) ==
    IF S = {} THEN 0
    ELSE LET p == CHOOSE x \in S : TRUE
         IN  f[p] + SumProcessed(f, S \ {p})

\* Photos attempted since START in a history that is a chain
Attempted == SumProcessed(hist.processed, AllPhotoIds)

\* C17 (as claimed): the cursor never exceeds the total, in the fields of
\* the coordinator and in the state file, also after a resume that
\* enumerates the photo list again.
C17_CursorWithinTotal ==
    /\ gui.current_photo <= gui.total_photos
    /\ stateFile.kind = "saved"
          => stateFile.current_photo <= stateFile.total_photos

\* A run begun by START whose photos are still those START enumerated
FreshRun == hist.chain /\ ~hist.resumed

\* Neither PAUSE nor a confirmed STOP has been requested in the run
NoRequest == ~gui.should_stop /\ ~gui.should_pause

\* The first k photos of the snapshot were attempted once, no other was
AttemptedPrefix(k) ==
    /\ \A j \in DOMAIN hist.snapshot :
          hist.processed[hist.snapshot[j]] = IF j <= k THEN 1 ELSE 0
    /\ \A p \in AllPhotoIds :
          p \notin SeqToSet(hist.snapshot) => hist.processed[p] = 0

C26_PausedStateConsistent ==
    (/\ hist.chain /\ hist.outcome = "Paused"
     /\ worker.pc = "finally" /\ stateFile.kind = "saved")
        => /\ stateFile.current_photo = hist.pausedAt
           /\ AttemptedPrefix(stateFile.current_photo)
           /\ stateFile.counters = hist.ref
           /\ stateFile.total_photos = Len(hist.snapshot)

\* A pause after the first of two photos, which was tagged
C26_Witness ==
    /\ hist.chain /\ hist.outcome = "Paused"
    /\ worker.pc = "finally" /\ stateFile.kind = "saved"
    /\ stateFile.current_photo = 1 /\ Len(hist.snapshot) = 2
    /\ stateFile.counters.photos_tagged = 1


\* C27 (as claimed): while the worker runs, a step of the GUI thread changes
\* nothing but the stop and pause requests: not the state file, not the
\* counters, the cursor, the total or the configuration.
C27_ControlOnlySetsFlags ==
    [][ (worker.pc # "idle" /\ worker' = worker)
            => /\ stateFile' = stateFile
               /\ gui'.counters = gui.counters
               /\ gui'.current_photo = gui.current_photo
               /\ gui'.total_photos = gui.total_photos
               /\ gui'.cfg = gui.cfg ]_vars


\* The order of the counters of the coordinator
CounterOrder(c, cursor) ==
    /\ c.photos_tagged <= c.photos_analyzed
    /\ c.photos_analyzed <= cursor
    /\ c.stats_tags_written_catalog <= c.photos_analyzed
    /\ c.stats_tags_written_xmp + c.stats_xmp_skipped_no_file
          <= c.photos_analyzed
    /\ c.photos_tagged
          <= c.stats_tags_written_catalog + c.stats_tags_written_xmp

\* C29 (as claimed): in every state of a run tagged <= analyzed <= cursor,
\* catalog writes <= analyzed, sidecar writes + sidecars skipped <=
\* analyzed, tagged <= catalog writes + sidecar writes, and a photo changes
\* each counter by at most 1.
C29_CounterOrder ==
    /\ [](worker.pc # "idle" => CounterOrder(gui.counters, gui.current_photo))
    /\ [][ (worker.pc = "process" /\ worker'.pc = "loop")
              => \A k \in DOMAIN gui.counters :
                    gui'.counters[k] - gui.counters[k] \in {0, 1} ]_vars


\* C1: a run over N photos that is paused at photo boundaries and resumed
\* from the state each pause saved, the source unchanged, processes no photo
\* twice, and when it completes every photo of the list was processed exactly
\* once and the five counters and the cursor are those of the uninterrupted
\* run with the same collaborator.
C1_PauseResumeExact ==
    hist.chain =>
        /\ \A p \in BatchPhotoIds : hist.processed[p] <= 1
        /\ (worker.pc = "finally" /\ hist.outcome = "Completed") =>
              /\ \A p \in BatchPhotoIds :
                    hist.processed[p] =
                        (IF p \in SeqToSet(hist.snapshot) THEN 1 ELSE 0)
              /\ gui.counters = hist.ref
              /\ gui.current_photo = Len(hist.snapshot)
              /\ gui.total_photos = Len(hist.snapshot)

\* A run of two photos, paused after the first, resumed, completes with a
\* photo tagged
C1_Witness ==
    /\ hist.chain /\ hist.resumed /\ hist.pausedAt = 1
    /\ worker.pc = "finally" /\ hist.outcome = "Completed"
    /\ Len(hist.snapshot) = 2
    /\ gui.counters.photos_tagged >= 1
    /\ gui.counters = hist.ref

\* C2: once a stop was confirmed during a run and the worker has ended (the
\* stop handler has returned), there is no state file a resume could load,
\* whatever pause was pending.
C2_StopDiscardsState ==
    (hist.stopIssued /\ worker.pc = "idle" /\ gui.dialog = "none")
        => stateFile.kind # "saved"

\* C3: when the worker of a run, here one resumed from the state its pause
\* saved, has left the loop without an error or a storage fault, either
\* there is a state file whose cursor is the number of photos attempted
\* (Paused) or there is no state file (Stopped, Completed).
C3_ExactlyThreeOutcomes ==
    (/\ hist.chain /\ hist.resumed
     /\ worker.pc = "idle" /\ gui.dialog = "none"
     /\ hist.outcome \notin {"none", "Error", "PausedUnsaved"})
        => \/ /\ hist.outcome = "Paused"
              /\ stateFile.kind = "saved"
              /\ stateFile.current_photo = Attempted
           \/ stateFile.kind = "absent"


====
